---- MODULE Spec2Model ----
(***************************************************************************)
(* A model of the replication ingester of osm-meet-your-mappers:           *)
(*   osm_meet_your_mappers/parsers.py    parse_changeset                   *)
(*   osm_meet_your_mappers/db_utils.py   upsert_changesets                 *)
(*   scripts/backfill.py                 process_replication_content,      *)
(*                                       process_sequence, worker_thread,  *)
(*                                       retry_manager_thread,             *)
(*                                       backfill_changesets_mt,           *)
(*                                       continuous_update_mt              *)
(*                                                                         *)
(* Specifications:                                                         *)
(*   SpecContent  one thread ingesting the files of a fixed feed, in any   *)
(*                order and any number of times                            *)
(*   SpecUpsert   two threads calling upsert_changesets concurrently       *)
(*   SpecSequence one thread calling process_sequence any number of times  *)
(*   SpecStatus   the workers' update_sequence_status calls                *)
(*   SpecStart    backfill_changesets_mt filling its queue, on any         *)
(*                sequences table                                          *)
(*   Spec         backfill_changesets_mt: the main thread, the workers and *)
(*                the retry manager, with downloads that fail              *)
(*   SpecCont     main() on an up-to-date sequences table:                 *)
(*                continuous_update_mt and its retry manager               *)
(*   SpecPoll     SpecCont without the retry manager's scan                *)
(***************************************************************************)
EXTENDS Integers, Sequences, FiniteSets, TLC

(***************************************************************************)
(* Bounds of the model.                                                    *)
(***************************************************************************)
\* Highest timestamp of the feed; timestamps are 1..MaxTime.
MaxTime == 2
\* Longest comments list a stored row may reach; a step that would exceed it
\* is not taken (the code appends without bound).
MaxComments == 3

\* None: a missing closed_at (parse_datetime returns None).
NULL == 0

Ids == {1, 2}
Times == 1..MaxTime
\* The <comment> children of a <changeset> element: the discussion so far.
CommentLists == {<<>>, <<1>>, <<1, 2>>}
SeqNums == {1, 2}
BatchSizes == {1, 2}

Max(a, b) == IF a >= b THEN a ELSE b

(***************************************************************************)
(* <changeset> elements of a replication file.                             *)
(***************************************************************************)
ElementsOf(i) ==
    [id : {i}, closed_at : {NULL} \cup Times, open : BOOLEAN, comments : CommentLists]

\* What the OSM feed publishes: an open changeset has no closed_at attribute.
WellFormed(e) == e.open <=> (e.closed_at = NULL)

FeedElements(i) == {e \in ElementsOf(i) : WellFormed(e)}

\* A replication file holds at most two changesets, in document order; the
\* files of two changesets carry no discussion.
Files ==
    {<<>>}
    \cup {<<e>> : e \in FeedElements(1) \cup FeedElements(2)}
    \cup {<<e1, e2>> : e1 \in {e \in FeedElements(1) : e.comments = <<>>},
                        e2 \in {e \in FeedElements(2) : e.comments = <<>>}}

(***************************************************************************)
(* parsers.py                                                              *)
(***************************************************************************)
\* parse_changeset with the open attribute read the wrong way round
ParseOpenInverted(elem) ==
    IF elem.id <= 0 THEN <<>>
    ELSE IF elem.closed_at = NULL THEN <<>>
    ELSE << [id |-> elem.id, closed_at |-> elem.closed_at, open |-> ~elem.open,
             comments_count |-> Len(elem.comments), comments |-> elem.comments] >>

\* parse_changeset: <<>> for None, else the one record.
ParseChangeset(elem) ==
    IF elem.id <= 0 THEN <<>>
    ELSE IF elem.closed_at = NULL THEN <<>>
    ELSE << [id |-> elem.id, closed_at |-> elem.closed_at, open |-> elem.open,
             comments_count |-> Len(elem.comments), comments |-> elem.comments] >>

RECURSIVE ParseAll(_)
\* all_changesets of process_replication_content
ParseAll(elems) ==
    IF elems = <<>> THEN <<>>
    ELSE ParseChangeset(Head(elems)) \o ParseAll(Tail(elems))

(***************************************************************************)
(* The changesets table and db_utils.py                                    *)
(***************************************************************************)
NoRow ==
    [present |-> FALSE, closed_at |-> NULL, open |-> FALSE,
     comments_count |-> 0, comments |-> <<>>]

\* INSERT INTO changesets ... VALUES: the row of a new id
InsertRow(cs) ==
    [present |-> TRUE, closed_at |-> cs.closed_at, open |-> cs.open,
     comments_count |-> cs.comments_count, comments |-> cs.comments]

\* ON CONFLICT DO UPDATE writing closed_at = EXCLUDED.closed_at
UpdateRowNoCase(old, cs) ==
    [present |-> TRUE,
     closed_at |-> cs.closed_at,
     open |-> IF cs.open = FALSE THEN FALSE ELSE old.open,
     comments_count |-> cs.comments_count,
     comments |-> old.comments \o cs.comments]

\* The update with `open = EXCLUDED.open' in place of the CASE expression
UpdateRowOpenFromIncoming(old, cs) ==
    [present |-> TRUE,
     closed_at |-> IF old.closed_at = NULL THEN cs.closed_at
                   ELSE IF cs.closed_at = NULL THEN old.closed_at
                   ELSE cs.closed_at,
     open |-> cs.open,
     comments_count |-> cs.comments_count,
     comments |-> old.comments \o cs.comments]

\* ON CONFLICT (id) DO UPDATE SET ...
UpdateRow(old, cs) ==
    [present |-> TRUE,
     closed_at |-> IF old.closed_at = NULL THEN cs.closed_at
                   ELSE IF cs.closed_at = NULL THEN old.closed_at
                   ELSE cs.closed_at,
     open |-> IF cs.open = FALSE THEN FALSE ELSE old.open,
     comments_count |-> cs.comments_count,
     comments |-> old.comments \o cs.comments]

\* One row of the multi-row INSERT ... ON CONFLICT statement.
WriteRow(st, cs) ==
    [st EXCEPT ![cs.id] = IF st[cs.id].present THEN UpdateRow(st[cs.id], cs)
                          ELSE InsertRow(cs)]

RECURSIVE WriteRows(_, _)
WriteRows(st, batch) ==
    IF batch = <<>> THEN st
    ELSE WriteRows(WriteRow(st, Head(batch)), Tail(batch))

\* The filter loop without its comments_count test
SkipOnlyOpenOverClosed(existing, cs) ==
    /\ existing[cs.id].present
    /\ existing[cs.id].closed_at # NULL /\ cs.closed_at = NULL

\* The two `continue` tests of upsert_changesets' filter loop.
SkipInUpsert(existing, cs) ==
    /\ existing[cs.id].present
    /\ \/ existing[cs.id].closed_at # NULL /\ cs.closed_at = NULL
       \/ existing[cs.id].comments_count > cs.comments_count

RECURSIVE FilterBatch(_, _)
\* filtered_batch
FilterBatch(existing, batch) ==
    IF batch = <<>> THEN <<>>
    ELSE (IF SkipInUpsert(existing, Head(batch)) THEN <<>> ELSE <<Head(batch)>>)
         \o FilterBatch(existing, Tail(batch))

\* upsert_changesets(conn, cs_batch) where existing_data was read from
\* `existing' and the statement runs against `st'. dbfail: execute_values or
\* the commit raises; the except clause rolls back and returns normally.
UpsertWrite(st, existing, batch, dbfail) ==
    IF batch = <<>> THEN st
    ELSE LET filtered == FilterBatch(existing, batch) IN
         IF filtered = <<>> THEN st
         ELSE IF dbfail THEN st
         ELSE WriteRows(st, filtered)

\* 1 when upsert_changesets(batch) gets as far as execute_values, else 0.
Written(st, batch) == IF FilterBatch(st, batch) = <<>> THEN 0 ELSE 1

\* upsert_changesets run by one thread with nothing in between.
UpsertChangesets(st, batch, dbfail) == UpsertWrite(st, st, batch, dbfail)

(***************************************************************************)
(* backfill.py: process_replication_content                                *)
(***************************************************************************)
\* should_process after the tests against existing_data
ShouldProcess(existing, cs) ==
    ~ ( /\ existing[cs.id].present
        /\ \/ existing[cs.id].closed_at # NULL /\ cs.closed_at = NULL
           \/ existing[cs.id].comments_count > cs.comments_count )

\* The cutoff test of the loop body without `cs_id not in existing_data'
TakenIgnoringPresence(existing, cs, cutoff) == ShouldProcess(existing, cs)

\* Whether the loop body appends cs to cs_batch (and clears all_old).
Taken(existing, cs, cutoff) ==
    IF cs.closed_at # NULL /\ cs.closed_at <= cutoff
    THEN ShouldProcess(existing, cs) /\ ~existing[cs.id].present
    ELSE ShouldProcess(existing, cs)

RECURSIVE ContentLoop(_, _, _, _, _, _)
\* The `for cs in all_changesets' loop and the final flush. acc carries the
\* store, cs_batch, inserted_count, all_old and the number of upsert calls
\* that reached the INSERT statement.
ContentLoop(acc, all, existing, bsize, cutoff, dbfail) ==
    IF all = <<>>
    THEN IF acc.batch # <<>>
         THEN [acc EXCEPT
                 !.store = UpsertChangesets(acc.store, acc.batch, dbfail),
                 !.inserted = acc.inserted + Len(acc.batch),
                 !.batch = <<>>,
                 !.writes = acc.writes + Written(acc.store, acc.batch)]
         ELSE acc
    ELSE LET cs == Head(all)
             take == Taken(existing, cs, cutoff)
             a1 == IF take
                   THEN [acc EXCEPT !.batch = Append(acc.batch, cs), !.all_old = FALSE]
                   ELSE acc
             a2 == IF Len(a1.batch) >= bsize
                   THEN [a1 EXCEPT
                           !.store = UpsertChangesets(a1.store, a1.batch, dbfail),
                           !.inserted = a1.inserted + Len(a1.batch),
                           !.batch = <<>>,
                           !.writes = a1.writes + Written(a1.store, a1.batch)]
                   ELSE a1
         IN ContentLoop(a2, Tail(all), existing, bsize, cutoff, dbfail)

\* process_replication_content(conn, xml_bytes, batch_size, cutoff_date):
\* the store afterwards and the pair (inserted_count, reached_cutoff).
ProcessReplicationContent(st, elems, bsize, cutoff, dbfail) ==
    LET all == ParseAll(elems) IN
    IF all = <<>>
    THEN [store |-> st, inserted |-> 0, reached |-> FALSE, parsed |-> 0, writes |-> 0]
    ELSE LET acc == ContentLoop(
                        [store |-> st, batch |-> <<>>, inserted |-> 0,
                         all_old |-> TRUE, writes |-> 0],
                        all, st, bsize, cutoff, dbfail)
         IN [store |-> acc.store, inserted |-> acc.inserted,
             reached |-> acc.all_old /\ Len(all) > 0, parsed |-> Len(all),
             writes |-> acc.writes]

\* The status process_sequence writes after process_replication_content returns.
StatusAfter(r) ==
    IF r.reached THEN "backfilled"
    ELSE IF r.inserted > 0 THEN "backfilled" ELSE "empty"

\* SELECT MAX(closed_at) FROM changesets (get_most_recent_closed_at)
MostRecentClosedAt(st) ==
    LET S == {st[i].closed_at : i \in {j \in Ids : st[j].present}} IN
    IF S = {} THEN NULL ELSE CHOOSE m \in S : \A x \in S : x <= m

\* No stored comments list is longer than the model allows.
WithinBounds(st) == \A i \in Ids : Len(st[i].comments) <= MaxComments

(***************************************************************************)
(* State                                                                   *)
(***************************************************************************)
VARIABLES
    store,        \* the changesets table: id -> row
    cutoff_date,  \* main's cutoff_date
    batch_size,   \* main's batch_size
    feed,         \* the upstream feed: sequence number -> elements of its file
    done,         \* sequence numbers ingested at least once without a database error
    last,         \* the latest process_sequence call of the sequential specifications
    up,           \* SpecUpsert: thread -> its upsert_changesets call in progress
    lastup,       \* SpecUpsert: the latest upsert_changesets call that returned
    running,          \* the global `running' flag
    seqtab,           \* the sequences table: sequence number -> row
    sequence_queue,   \* backfill_changesets_mt's sequence_queue
    unfinished,       \* its unfinished_tasks counter (put: +1, task_done: -1)
    failed_sequences, \* the global retry PriorityQueue
    wk,               \* worker -> position and locals of worker_thread
    rm,               \* position and locals of retry_manager_thread
    mn,               \* position and locals of the main thread
    attempts,         \* sequence number -> process_sequence calls begun
    faults,           \* sequence number -> its downloads that have failed so far
    retry_queue,      \* continuous_update_mt's retry_queue
    tip,              \* the sequence number in the remote state file
    rows,             \* SpecStatus: the rows of the sequences table, in heap order
    pool,             \* SpecPool: db_pool_semaphore, db_pool and the threads using them
    al,               \* SpecLoad: the archive loader's producer, queue and consumers
    since_request,    \* SpecFetch: time since the last HTTP request, in throttle delays
    px,               \* SpecParse: a changeset element and what the two parsers make of it
    tx                \* SpecTxn: a connection's transaction and the rows readers see

contentVars == <<cutoff_date, batch_size, feed, done, last>>
upsertVars == <<up, lastup>>
harnessVars == <<rows, pool, al, since_request, px, tx>>
pipeVars ==
    <<running, seqtab, sequence_queue, unfinished, failed_sequences, wk, rm, mn, attempts,
      faults, retry_queue, tip, harnessVars>>
daemonVars ==
    <<running, seqtab, sequence_queue, unfinished, failed_sequences, wk, rm, mn, attempts,
      faults, retry_queue, tip>>
vars ==
    <<store, cutoff_date, batch_size, feed, done, last, up, lastup,
      running, seqtab, sequence_queue, unfinished, failed_sequences, wk, rm, mn, attempts,
      faults, retry_queue, tip, rows, pool, al, since_request, px, tx>>

\* The store left by the archive loader: changeset 1, closed at time 1.
InitialStores ==
    {[i \in Ids |-> IF i = 1
                    THEN [present |-> TRUE, closed_at |-> 1, open |-> FALSE,
                          comments_count |-> Len(c), comments |-> c]
                    ELSE NoRow] : c \in CommentLists}

NoCall ==
    [called |-> FALSE, seq |-> 0, pre |-> [i \in Ids |-> NoRow], inserted |-> 0,
     reached |-> FALSE, parsed |-> 0, again |-> FALSE, dbfail |-> FALSE,
     outcome |-> "none", fq |-> <<>>, written |-> 0]

Threads == {1, 2}

\* A thread outside upsert_changesets.
NoUpsert == [pc |-> "idle", batch |-> <<>>, existing |-> [i \in Ids |-> NoRow]]

(***************************************************************************)
(* backfill.py: configuration and the shapes of the daemon's state         *)
(***************************************************************************)
\* max_workers and max_retries as configured for the model
MAX_WORKERS == 2
MAX_RETRIES == 1
\* retry_interval (300 s) and the scan's "retry soon" (10 s), in clock ticks
RETRY_INTERVAL == 1
SCAN_DELAY == 1
\* The sequence number in the remote state file when the daemon starts.
Tip == 2
\* Sequences the feed publishes after that.
MaxNew == 1
\* Downloads that fail in one run of the model.
MaxFaults == 2
\* Scans of the sequences table the retry manager makes in one run.
MaxScans == 1

Workers == 1..MAX_WORKERS
MaxSeq == Tip + MaxNew
PSeqs == 1..MaxSeq

\* The None sentinel on a queue; other items are (seq, retry_count).
Token == [seq |-> 0, retry |-> 0]

NoSeqRow == [status |-> "none", error |-> FALSE]

IdleWorker == [pc |-> "unstarted", seq |-> 0, retry |-> 0, outcome |-> "none", result |-> "none"]
IdleRetryManager ==
    [pc |-> "unstarted", snap |-> {}, scans |-> 0, target |-> "sequence_queue"]
MainAtStart ==
    [pc |-> "start", current_seq |-> 0, highest |-> 0, lowest |-> 0, to_process |-> <<>>,
     gaps |-> <<>>, last_seq |-> 0]

\* backfill.py: MAX_DB_CONNECTIONS and THROTTLE_DELAY, in units of the model
MAX_DB_CONNECTIONS == 2
THROTTLE_DELAY == 1

\* The threads that use the connection pool, and the connections one thread
\* holds at a time (process_sequence holds one while update_sequence_status
\* takes another).
PoolThreads == 1..3
MaxHeld == 2

\* db_pool_semaphore = threading.Semaphore(MAX_DB_CONNECTIONS); db_pool = []
NoPool ==
    [sem |-> MAX_DB_CONNECTIONS, idle |-> <<>>, released |-> FALSE,
     th |-> [t \in PoolThreads |-> [pc |-> "out", held |-> <<>>]]]

\* The archive loader's inputs: a file of at most MaxFile changeset elements,
\* each accepted or not by should_process_changeset and parse_changeset, and
\* the three configuration values validate_config accepts.
MaxFile == 3
LoaderSizes == 1..2
Consumers == 1..2
LoaderFiles == UNION {[1..n -> BOOLEAN] : n \in 0..MaxFile}

\* process_changeset_file has not been called.
NoLoader ==
    [file |-> <<>>, num_workers |-> 1, queue_size |-> 1, batch_size |-> 1,
     mpc |-> "idle", ppc |-> "unstarted", pos |-> 0, batch |-> <<>>, sent |-> 0, tried |-> 0,
     queue |-> <<>>, unfinished |-> 0,
     cons |-> [c \in Consumers |-> [pc |-> "unstarted", cur |-> <<>>, tokens |-> 0]],
     handed |-> <<>>, write_errors |-> 0, timed_out |-> FALSE]

\* No element has been parsed.
NoParse == [parsed |-> FALSE, elem |-> <<>>, replication |-> <<>>, archive |-> <<>>]

\* A connection on which no write has begun, and an empty store.
NoTx == [writer |-> "none", n |-> 0, stmt |-> 0, pending |-> {}, visible |-> {}, failed |-> {},
         undone |-> {}]

\* The daemon's state in the specifications that do not run it.
ThreadsNotStarted ==
    /\ running = TRUE
    /\ seqtab = [s \in PSeqs |-> NoSeqRow]
    /\ sequence_queue = <<>>
    /\ unfinished = 0
    /\ failed_sequences = <<>>
    /\ wk = [w \in Workers |-> IdleWorker]
    /\ rm = IdleRetryManager
    /\ mn = MainAtStart
    /\ attempts = [s \in PSeqs |-> 0]
    /\ faults = [s \in PSeqs |-> 0]
    /\ retry_queue = <<>>
    /\ tip = Tip

\* The state outside the part a specification is about.
NoDaemon ==
    /\ ThreadsNotStarted
    /\ rows = <<>>
    /\ pool = NoPool
    /\ al = NoLoader
    /\ since_request = THROTTLE_DELAY
    /\ px = NoParse
    /\ tx = NoTx

\* No upsert_changesets call has returned yet.
NoUpsertDone ==
    [called |-> FALSE, batch |-> <<>>, existing |-> [i \in Ids |-> NoRow],
     pre |-> [i \in Ids |-> NoRow], dbfail |-> FALSE]

(***************************************************************************)
(* SpecContent                                                             *)
(***************************************************************************)
InitContent ==
    /\ store \in InitialStores
    /\ cutoff_date = MostRecentClosedAt(store)
    /\ batch_size \in BatchSizes
    /\ feed \in [SeqNums -> Files]
    /\ done = {}
    /\ last = NoCall
    /\ up = [t \in Threads |-> NoUpsert]
    /\ lastup = NoUpsertDone
    /\ NoDaemon

\* process_sequence(s) whose download succeeds: the changeset writes and the
\* values that decide the sequence status. dbfail: the database rejects the
\* writes of this call.
Ingest(s, dbfail) ==
    LET r == ProcessReplicationContent(store, feed[s], batch_size, cutoff_date, dbfail) IN
    /\ WithinBounds(r.store)
    /\ store' = r.store
    /\ done' = IF dbfail THEN done ELSE done \cup {s}
    /\ last' = [called |-> TRUE, seq |-> s, pre |-> store, inserted |-> r.inserted,
                reached |-> r.reached, parsed |-> r.parsed, again |-> s \in done,
                dbfail |-> dbfail, outcome |-> IF dbfail THEN "dbfail" ELSE "ok",
                fq |-> failed_sequences, written |-> IF dbfail THEN 0 ELSE r.writes]
    /\ UNCHANGED <<cutoff_date, batch_size, feed, upsertVars, pipeVars>>

NextContent == \E s \in SeqNums, dbfail \in BOOLEAN : Ingest(s, dbfail)

SpecContent == InitContent /\ [][NextContent]_vars

(***************************************************************************)
(* Claims checked under SpecContent                                        *)
(***************************************************************************)
RowCount(st) == Cardinality({i \in Ids : st[i].present})

\* C1: once a set of sequences has been ingested, ingesting one
\* of them again adds no changeset row and lengthens no row's comments list.
C1_ReingestAddsNothing ==
    (last.called /\ last.again /\ ~last.dbfail) =>
        /\ RowCount(store) = RowCount(last.pre)
        /\ \A i \in Ids : Len(store[i].comments) <= Len(last.pre[i].comments)

\* Ids with no row in the store the daemon starts from.
FreshIds == {i \in Ids : \A st \in InitialStores : ~st[i].present}

\* Sequence a holds only the open version of changeset c, sequence b only its
\* closed version.
OpenThenClosed(a, b, c) ==
    /\ a # b
    /\ Len(feed[a]) = 1 /\ Len(feed[b]) = 1
    /\ feed[a][1].id = c /\ feed[b][1].id = c
    /\ feed[a][1].open /\ feed[a][1].closed_at = NULL /\ feed[a][1].comments = <<>>
    /\ ~feed[b][1].open /\ feed[b][1].closed_at # NULL

\* C3: when one sequence holds the open version of a new changeset and the
\* other its closed version, after both have been ingested, in either order,
\* the row is closed, with the closed version's closed_at and comment count.
C3_OrderIndependent ==
    \A a \in SeqNums, b \in SeqNums, c \in FreshIds :
        (OpenThenClosed(a, b, c) /\ done = {a, b}) =>
            /\ store[c].present
            /\ store[c].open = FALSE
            /\ store[c].closed_at = feed[b][1].closed_at
            /\ store[c].comments_count = Len(feed[b][1].comments)

\* C3 witness: the open version was ingested after the closed one with its
\* discussion.
C3_Witness ==
    \E a \in SeqNums, b \in SeqNums, c \in FreshIds :
        /\ OpenThenClosed(a, b, c) /\ done = {a, b}
        /\ feed[b][1].comments # <<>>
        /\ last.called /\ last.seq = a /\ ~last.again

\* Every changeset parsed from the file of the latest call was in the store
\* before the call and is closed no later than the cutoff.
AllPresentAndOld ==
    LET all == ParseAll(feed[last.seq]) IN
    \A k \in 1..Len(all) :
        /\ last.pre[all[k].id].present
        /\ all[k].closed_at # NULL /\ all[k].closed_at <= cutoff_date

\* C10, as the specification states it: reached_cutoff is true whenever
\* every changeset parsed from the sequence is already stored and not newer
\* than the cutoff.
C10_AllOldReachesCutoff ==
    (last.called /\ AllPresentAndOld) => last.reached

\* C10, for non-empty sequences: the same for a sequence from which at
\* least one changeset was parsed.
C10_AllOldNonEmptyReachesCutoff ==
    (last.called /\ last.parsed > 0 /\ AllPresentAndOld) => last.reached

\* C10 witness: a call on a file of two stored, old changesets.
C10_Witness ==
    last.called /\ last.parsed = 2 /\ AllPresentAndOld /\ last.reached

\* C23: after a process_sequence call the database did not fail, every
\* changeset of the file that was already stored and that neither rule 2 nor
\* rule 3 skips has been written to its row: the row carries the incoming
\* comments_count and closed_at, and open is false if the incoming open is.
C23_StoredVersionUpdated ==
    last.called /\ ~last.dbfail =>
        \A k \in 1..Len(feed[last.seq]) :
            LET parsed == ParseChangeset(feed[last.seq][k]) IN
            \A n \in 1..Len(parsed) :
                LET cs == parsed[n] IN
                (last.pre[cs.id].present /\ ShouldProcess(last.pre, cs))
                => /\ store[cs.id].comments_count = cs.comments_count
                   /\ store[cs.id].closed_at = cs.closed_at
                   /\ (~cs.open => ~store[cs.id].open)

\* C37: process_replication_content reports reached_cutoff only for a
\* sequence with at least one parsed changeset, all of them already in the
\* store, closed at or before cutoff_date, and none written by the call.
C37_CutoffOnlyWhenAllOld ==
    LET all == ParseAll(feed[last.seq]) IN
    last.called /\ last.reached
    => /\ Len(all) > 0
       /\ \A k \in 1..Len(all) :
              /\ last.pre[all[k].id].present
              /\ all[k].closed_at # NULL
              /\ all[k].closed_at <= cutoff_date
       /\ last.inserted = 0

\* C38: in every changeset row comments_count is the number of entries of
\* the row's comments list, after any sequence of upsert_changesets calls
\* with parsed records.
C38_CountMatchesComments ==
    \A i \in Ids : store[i].present => store[i].comments_count = Len(store[i].comments)

(***************************************************************************)
(* SpecUpsert: upsert_changesets called by two threads at once. A call     *)
(* first reads existing_data, then runs the INSERT ... ON CONFLICT         *)
(* statement; the other thread may commit in between.                      *)
(***************************************************************************)
\* The cs dictionaries a caller may pass: any closed_at and open, with a
\* discussion of at most one comment.
Records(i) ==
    {[id |-> e.id, closed_at |-> e.closed_at, open |-> e.open,
      comments_count |-> Len(e.comments), comments |-> e.comments] :
        e \in {f \in FeedElements(i) : Len(f.comments) <= 1}}

\* The batches of the concurrent calls: versions of changeset 1.
Batches == {<<r>> : r \in Records(1)}

InitUpsert ==
    /\ store \in {st \in InitialStores : Len(st[1].comments) <= 1} \cup {[i \in Ids |-> NoRow]}
    /\ cutoff_date = NULL
    /\ batch_size = 1
    /\ feed = [s \in SeqNums |-> <<>>]
    /\ done = {}
    /\ last = NoCall
    /\ up = [t \in Threads |-> NoUpsert]
    /\ lastup = NoUpsertDone
    /\ NoDaemon

\* SELECT id, closed_at, open, comments_count ... WHERE id = ANY(cs_ids)
ExistingData(st, batch) ==
    [i \in Ids |-> IF \E k \in 1..Len(batch) : batch[k].id = i THEN st[i] ELSE NoRow]

\* upsert_changesets up to the end of the existing_data query
UpsertRead(t, batch) ==
    /\ up[t].pc = "idle"
    /\ up' = [up EXCEPT ![t] = [pc |-> "read", batch |-> batch,
                                 existing |-> ExistingData(store, batch)]]
    /\ UNCHANGED <<store, lastup, contentVars, pipeVars>>

\* the filter loop, execute_values and commit (or rollback)
UpsertCommit(t, dbfail) ==
    /\ up[t].pc = "read"
    /\ LET st == UpsertWrite(store, up[t].existing, up[t].batch, dbfail) IN
       /\ WithinBounds(st)
       /\ store' = st
    /\ up' = [up EXCEPT ![t] = NoUpsert]
    /\ lastup' = [called |-> TRUE, batch |-> up[t].batch, existing |-> up[t].existing,
                  pre |-> store, dbfail |-> dbfail]
    /\ UNCHANGED <<contentVars, pipeVars>>

NextUpsert ==
    \/ \E t \in Threads, b \in Batches : UpsertRead(t, b)
    \/ \E t \in Threads, dbfail \in BOOLEAN : UpsertCommit(t, dbfail)

SpecUpsert == InitUpsert /\ [][NextUpsert]_vars

(***************************************************************************)
(* Claims checked under SpecUpsert                                         *)
(***************************************************************************)
\* C2: a step never takes a row's closed_at from a timestamp back to null.
C2_ClosedAtNeverRegresses ==
    [][\A i \in Ids : store[i].closed_at # NULL => store'[i].closed_at # NULL]_vars

\* C2 witness: an open version that had passed the filter was written over
\* a row closed in the meantime by the other thread.
C2_Witness ==
    /\ lastup.called /\ ~lastup.dbfail
    /\ lastup.batch[1].closed_at = NULL
    /\ ~SkipInUpsert(lastup.existing, lastup.batch[1])
    /\ lastup.pre[1].present /\ lastup.pre[1].closed_at # NULL
    /\ store[1].closed_at = lastup.pre[1].closed_at

\* C21: every changeset row with a non-null closed_at has open = FALSE,
\* whatever versions of the changeset upsert_changesets has inserted and
\* written over one another, the calls of two threads interleaved.
C21_ClosedRowsNotOpen ==
    \A i \in Ids : store[i].present /\ store[i].closed_at # NULL => ~store[i].open

\* C21 witness: an open version, read against an empty table, was written
\* over the row another call had inserted closed in the meantime.
C21_Witness ==
    /\ lastup.called /\ ~lastup.dbfail
    /\ lastup.batch[1].open
    /\ ~lastup.existing[1].present
    /\ lastup.pre[1].present /\ lastup.pre[1].closed_at # NULL
    /\ store[1].comments_count = lastup.batch[1].comments_count
    /\ ~store[1].open

\* C22: a call of upsert_changesets that found the row with a non-null
\* closed_at while the incoming closed_at is null, or with a comments_count
\* greater than the incoming one, has left the table as it was.
C22_SkippedRowUnchanged ==
    LET e == lastup.existing[1]
        cs == lastup.batch[1]
    IN lastup.called /\ e.present
       /\ (\/ e.closed_at # NULL /\ cs.closed_at = NULL
           \/ e.comments_count > cs.comments_count)
       => store = lastup.pre

\* C22 witness: a closed version with fewer comments than the stored row was
\* offered by a call the database did not fail, and the row is as before.
C22_Witness ==
    /\ lastup.called /\ ~lastup.dbfail
    /\ lastup.existing[1].present
    /\ lastup.batch[1].closed_at # NULL
    /\ lastup.existing[1].comments_count > lastup.batch[1].comments_count
    /\ store[1] = lastup.pre[1]
    /\ store[1].comments_count = 1

\* C35: concurrent calls of upsert_changesets behave as if run one after the
\* other: a version that the filter would skip against the row as it stands
\* never overwrites it, so no step lowers a stored row's comments_count.
C35_NoStaleOverwrite ==
    [][\A i \in Ids : store[i].present
          => store'[i].comments_count >= store[i].comments_count]_vars

\* C24: a call of upsert_changesets that ran with nothing in between and
\* changed a stored row's comments list had a non-empty incoming list and
\* found a stored comments_count strictly lower than the incoming one.
C24_ConditionalAppend ==
    ( /\ lastup.called
      /\ lastup.existing[1] = lastup.pre[1]
      /\ lastup.pre[1].present
      /\ store[1].comments # lastup.pre[1].comments )
    => /\ lastup.batch[1].comments # <<>>
       /\ lastup.pre[1].comments_count < lastup.batch[1].comments_count

(***************************************************************************)
(* backfill.py: process_sequence                                           *)
(***************************************************************************)
\* update_sequence_status: INSERT ... ON CONFLICT (sequence_number) DO UPDATE
UpdateSequenceStatus(tab, s, status, err) ==
    [tab EXCEPT ![s] = [status |-> status, error |-> err]]

RECURSIVE PutFailed(_, _)
\* failed_sequences.put((retry_time, retry_count, seq)): the queue is kept in
\* retry_time order; e.rem is the time left until retry_time.
PutFailed(q, e) ==
    IF q = <<>> THEN <<e>>
    ELSE IF Head(q).rem <= e.rem THEN <<Head(q)>> \o PutFailed(Tail(q), e)
    ELSE <<e>> \o q

\* The outcomes of one download: HTTP 404, any other fetch, gzip or stream
\* error, a file that is read ("ok"), and a file that is read while the
\* database rejects the changeset writes ("dbfail").
Outcomes == {"404", "error", "ok", "dbfail"}

\* process_sequence treating FileNotFoundError like any other exception
ProcessSequence404AsError(st, tab, fq, fd, bsize, cutoff, s, retry, outcome) ==
    IF outcome \in {"404", "error"}
    THEN [store |-> st,
          seqtab |-> UpdateSequenceStatus(tab, s, "failed", TRUE),
          failed |-> IF retry < MAX_RETRIES
                     THEN PutFailed(fq, [rem |-> RETRY_INTERVAL, retry |-> retry + 1, seq |-> s])
                     ELSE fq,
          result |-> "false"]
    ELSE LET r == ProcessReplicationContent(st, fd[s], bsize, cutoff, outcome = "dbfail") IN
         [store |-> r.store,
          seqtab |-> UpdateSequenceStatus(tab, s, StatusAfter(r), FALSE),
          failed |-> fq,
          result |-> IF r.reached THEN "true" ELSE "false"]

\* process_sequence without its `except Exception' clause
ProcessSequenceNoExcept(st, tab, fq, fd, bsize, cutoff, s, retry, outcome) ==
    IF outcome = "404"
    THEN [store |-> st,
          seqtab |-> UpdateSequenceStatus(tab, s, "empty", FALSE),
          failed |-> fq,
          result |-> "raise"]
    ELSE IF outcome = "error"
    THEN [store |-> st, seqtab |-> tab, failed |-> fq, result |-> "raise"]
    ELSE LET r == ProcessReplicationContent(st, fd[s], bsize, cutoff, outcome = "dbfail") IN
         [store |-> r.store,
          seqtab |-> UpdateSequenceStatus(tab, s, StatusAfter(r), FALSE),
          failed |-> fq,
          result |-> IF r.reached THEN "true" ELSE "false"]

\* process_sequence after its update_sequence_status(seq, "processing"):
\* the store, the sequences table and the retry queue it leaves, and how it
\* ends: returning True or False, or raising (the final `return
\* reached_cutoff' after the FileNotFoundError clause reads an unbound local).
ProcessSequence(st, tab, fq, fd, bsize, cutoff, s, retry, outcome) ==
    IF outcome = "404"
    THEN [store |-> st,
          seqtab |-> UpdateSequenceStatus(tab, s, "empty", FALSE),
          failed |-> fq,
          result |-> "raise"]
    ELSE IF outcome = "error"
    THEN [store |-> st,
          seqtab |-> UpdateSequenceStatus(tab, s, "failed", TRUE),
          failed |-> IF retry < MAX_RETRIES
                     THEN PutFailed(fq, [rem |-> RETRY_INTERVAL, retry |-> retry + 1, seq |-> s])
                     ELSE fq,
          result |-> "false"]
    ELSE LET r == ProcessReplicationContent(st, fd[s], bsize, cutoff, outcome = "dbfail") IN
         [store |-> r.store,
          seqtab |-> UpdateSequenceStatus(tab, s, StatusAfter(r), FALSE),
          failed |-> fq,
          result |-> IF r.reached THEN "true" ELSE "false"]

RECURSIVE SumTo(_, _)
SumTo(f, n) == IF n = 0 THEN 0 ELSE f[n] + SumTo(f, n - 1)
\* The failed downloads of all sequences together.
Total(f) == SumTo(f, MaxSeq)

\* The database can reject a write only if the call gets to one; the model
\* lets MaxFaults downloads fail.
OutcomePossible(s, outcome) ==
    /\ outcome = "dbfail" =>
           ProcessReplicationContent(store, feed[s], batch_size, cutoff_date, FALSE).writes > 0
    /\ outcome = "error" => Total(faults) < MaxFaults

(***************************************************************************)
(* backfill.py: worker_thread                                              *)
(***************************************************************************)
\* `while running:' is false: the thread ends
WorkerStop(w) ==
    /\ wk[w].pc = "top"
    /\ ~running
    /\ wk' = [wk EXCEPT ![w].pc = "exited"]
    /\ UNCHANGED <<store, contentVars, upsertVars, harnessVars, running, seqtab, sequence_queue,
                   unfinished, failed_sequences, rm, mn, attempts, faults, retry_queue, tip>>

\* sequence_queue.get(block=False) returns the None sentinel: task_done, break
WorkerGetToken(w) ==
    /\ wk[w].pc = "top"
    /\ running
    /\ sequence_queue # <<>>
    /\ Head(sequence_queue) = Token
    /\ sequence_queue' = Tail(sequence_queue)
    /\ unfinished' = unfinished - 1
    /\ wk' = [wk EXCEPT ![w].pc = "exited"]
    /\ UNCHANGED <<store, contentVars, upsertVars, harnessVars, running, seqtab,
                   failed_sequences, rm, mn, attempts, faults, retry_queue, tip>>

\* sequence_queue.get(block=False) returns a sequence; process_sequence starts:
\* update_sequence_status(seq_number, "processing")
WorkerGet(w) ==
    /\ wk[w].pc = "top"
    /\ running
    /\ sequence_queue # <<>>
    /\ Head(sequence_queue) # Token
    /\ LET item == Head(sequence_queue) IN
       /\ sequence_queue' = Tail(sequence_queue)
       /\ seqtab' = UpdateSequenceStatus(seqtab, item.seq, "processing", FALSE)
       /\ attempts' = [attempts EXCEPT ![item.seq] = @ + 1]
       /\ wk' = [wk EXCEPT ![w] = [pc |-> "fetch", seq |-> item.seq, retry |-> item.retry,
                                   outcome |-> "none", result |-> "none"]]
    /\ UNCHANGED <<store, contentVars, upsertVars, harnessVars, running, unfinished,
                   failed_sequences, rm, mn, faults, retry_queue, tip>>

\* process_sequence from download_and_decompress to its return or raise, and
\* the worker's sequence_queue.task_done() (after the call, or in the except
\* clause when the call raised)
WorkerProcess(w, outcome) ==
    /\ wk[w].pc = "fetch"
    /\ OutcomePossible(wk[w].seq, outcome)
    /\ LET res == ProcessSequence(store, seqtab, failed_sequences, feed, batch_size,
                                  cutoff_date, wk[w].seq, wk[w].retry, outcome) IN
       /\ WithinBounds(res.store)
       /\ store' = res.store
       /\ seqtab' = res.seqtab
       /\ failed_sequences' = res.failed
       /\ wk' = [wk EXCEPT ![w].pc = IF res.result = "true" THEN "tokens" ELSE "top",
                           ![w].outcome = outcome, ![w].result = res.result]
    /\ unfinished' = unfinished - 1
    /\ faults' = IF outcome = "error" THEN [faults EXCEPT ![wk[w].seq] = @ + 1] ELSE faults
    /\ UNCHANGED <<contentVars, upsertVars, harnessVars, running, sequence_queue, rm, mn, attempts,
                   retry_queue, tip>>

\* `if reached_cutoff:' put MAX_WORKERS sentinels and break
WorkerTokens(w) ==
    /\ wk[w].pc = "tokens"
    /\ sequence_queue' = sequence_queue \o [k \in 1..MAX_WORKERS |-> Token]
    /\ unfinished' = unfinished + MAX_WORKERS
    /\ wk' = [wk EXCEPT ![w].pc = "exited"]
    /\ UNCHANGED <<store, contentVars, upsertVars, harnessVars, running, seqtab,
                   failed_sequences, rm, mn, attempts, faults, retry_queue, tip>>

(***************************************************************************)
(* backfill.py: retry_manager_thread                                       *)
(***************************************************************************)
\* `while running:' is false: the thread ends
RetryStop ==
    /\ rm.pc = "loop"
    /\ ~running
    /\ rm' = [rm EXCEPT !.pc = "exited"]
    /\ UNCHANGED <<store, contentVars, upsertVars, harnessVars, running, seqtab, sequence_queue,
                   unfinished, failed_sequences, wk, mn, attempts, faults, retry_queue, tip>>

\* The inner loop: the head of failed_sequences is due and goes, as
\* (seq_number, retry_count), to the queue the thread was started with:
\* sequence_queue in backfill_changesets_mt, retry_queue in
\* continuous_update_mt. The loop does not test `running'.
RetryHandOver ==
    /\ rm.pc = "loop"
    /\ failed_sequences # <<>>
    /\ Head(failed_sequences).rem = 0
    /\ failed_sequences' = Tail(failed_sequences)
    /\ LET item == [seq |-> Head(failed_sequences).seq,
                    retry |-> Head(failed_sequences).retry] IN
       IF rm.target = "sequence_queue"
       THEN /\ sequence_queue' = Append(sequence_queue, item)
            /\ unfinished' = unfinished + 1
            /\ UNCHANGED retry_queue
       ELSE /\ retry_queue' = Append(retry_queue, item)
            /\ UNCHANGED <<sequence_queue, unfinished>>
    /\ UNCHANGED <<store, contentVars, upsertVars, harnessVars, running, seqtab, wk, rm, mn,
                   attempts, faults, tip>>

\* get_failed_sequences(): SELECT ... WHERE status = 'failed'
GetFailedSequences(tab) == {s \in PSeqs : tab[s].status = "failed"}

\* `if running and datetime.now().minute % 5 == 0:' holds and
\* get_failed_sequences() returns rows
RetryScanRead ==
    /\ rm.pc = "loop"
    /\ running
    /\ rm.scans < MaxScans
    /\ GetFailedSequences(seqtab) # {}
    /\ rm' = [rm EXCEPT !.pc = "put", !.snap = GetFailedSequences(seqtab), !.scans = @ + 1]
    /\ UNCHANGED <<store, contentVars, upsertVars, harnessVars, running, seqtab, sequence_queue,
                   unfinished, failed_sequences, wk, mn, attempts, faults, retry_queue, tip>>

RECURSIVE PutAll(_, _)
\* `for seq in failed_seqs: ... failed_sequences.put((retry_time, 1, seq))'
PutAll(q, seqs) ==
    IF seqs = {} THEN q
    ELSE LET s == CHOOSE x \in seqs : \A y \in seqs : x <= y IN
         PutAll(PutFailed(q, [rem |-> SCAN_DELAY, retry |-> 1, seq |-> s]), seqs \ {s})

\* Every failed row not in the retry queue is put on it with retry_count 1.
RetryScanPut ==
    /\ rm.pc = "put"
    /\ LET retry_queue_seqs ==
               {failed_sequences[k].seq : k \in 1..Len(failed_sequences)} IN
       failed_sequences' = PutAll(failed_sequences, rm.snap \ retry_queue_seqs)
    /\ rm' = [rm EXCEPT !.pc = "loop", !.snap = {}]
    /\ UNCHANGED <<store, contentVars, upsertVars, harnessVars, running, seqtab, sequence_queue,
                   unfinished, wk, mn, attempts, faults, retry_queue, tip>>

\* Time passes: every retry_time comes one tick closer.
Tick ==
    /\ \E k \in 1..Len(failed_sequences) : failed_sequences[k].rem > 0
    /\ failed_sequences' =
           [k \in 1..Len(failed_sequences) |->
               [failed_sequences[k] EXCEPT !.rem = IF @ > 0 THEN @ - 1 ELSE 0]]
    /\ UNCHANGED <<store, contentVars, upsertVars, harnessVars, running, seqtab, sequence_queue,
                   unfinished, wk, rm, mn, attempts, faults, retry_queue, tip>>

\* signal_handler
Signal ==
    /\ running
    /\ mn.pc \notin {"main", "start"}
    /\ running' = FALSE
    /\ UNCHANGED <<store, contentVars, upsertVars, harnessVars, seqtab, sequence_queue,
                   unfinished, failed_sequences, wk, rm, mn, attempts, faults, retry_queue, tip>>

(***************************************************************************)
(* backfill.py: backfill_changesets_mt                                     *)
(***************************************************************************)
\* get_processed_sequences(): the rows with status backfilled or empty
ProcessedSeqs(tab) == {s \in PSeqs : tab[s].status \in {"backfilled", "empty"}}

SetMax(S) == CHOOSE m \in S : \A x \in S : x <= m
SetMin(S) == CHOOSE m \in S : \A x \in S : m <= x

RECURSIVE Descending(_, _)
\* list(range(hi, lo, -1))
Descending(hi, lo) == IF hi <= lo THEN <<>> ELSE <<hi>> \o Descending(hi - 1, lo)

RECURSIVE Sorted(_)
\* sorted(S)
Sorted(S) == IF S = {} THEN <<>> ELSE <<SetMin(S)>> \o Sorted(S \ {SetMin(S)})

\* find_all_sequence_gaps returning only the numbers that have no row
FindMissingSequences(tab, lo, hi) == Sorted({s \in lo..hi : tab[s].status = "none"})

\* find_all_sequence_gaps(min_seq, max_seq)
FindAllSequenceGaps(tab, lo, hi) == Sorted((lo..hi) \ ProcessedSeqs(tab))

\* sequences_to_process as computed from the tip and the sequences table
SequencesToProcess(tab, current_seq) ==
    LET processed == ProcessedSeqs(tab) IN
    IF processed # {}
    THEN LET highest == SetMax(processed)
             lowest == SetMin(processed)
             gaps == FindAllSequenceGaps(tab, lowest, highest)
         IN IF highest >= current_seq THEN gaps
            ELSE Descending(current_seq, highest) \o gaps
    ELSE Descending(current_seq, 0)

\* backfill_changesets_mt up to sequence_queue.join(): it returns at once
\* when there is nothing to process, else fills the queue and starts the
\* retry manager and the workers. last_seq is the value it returns to main.
MainStart ==
    /\ mn.pc = "start"
    /\ LET processed == ProcessedSeqs(seqtab)
           todo == SequencesToProcess(seqtab, tip)
           highest == IF processed = {} THEN 0 ELSE SetMax(processed)
           lowest == IF processed = {} THEN 0 ELSE SetMin(processed)
       IN IF todo = <<>>
          THEN /\ mn' = [pc |-> "returned", current_seq |-> tip, highest |-> highest,
                         lowest |-> lowest, to_process |-> todo, gaps |-> <<>>,
                         last_seq |-> IF processed = {} THEN tip ELSE highest]
               /\ UNCHANGED <<sequence_queue, unfinished, wk, rm>>
          ELSE /\ mn' = [pc |-> "join", current_seq |-> tip, highest |-> highest,
                         lowest |-> lowest, to_process |-> todo, gaps |-> <<>>,
                         last_seq |-> 0]
               /\ sequence_queue' = [k \in 1..Len(todo) |-> [seq |-> todo[k], retry |-> 0]]
               /\ unfinished' = Len(todo)
               /\ wk' = [w \in Workers |-> [IdleWorker EXCEPT !.pc = "top"]]
               /\ rm' = [IdleRetryManager EXCEPT !.pc = "loop"]
    /\ UNCHANGED <<store, contentVars, upsertVars, harnessVars, running, seqtab, failed_sequences,
                   attempts, faults, retry_queue, tip>>

\* The elements of a sequence.
Range(q) == {q[k] : k \in 1..Len(q)}

\* sequence_queue.join() returns, and the final gap check reads the
\* sequences table: find_all_sequence_gaps(min_seq, max_seq) when an earlier
\* run had left processed sequences. Without gaps the function returns.
MainJoin ==
    /\ mn.pc = "join"
    /\ unfinished = 0
    /\ LET min_seq == IF mn.lowest <= SetMin(Range(mn.to_process))
                      THEN mn.lowest ELSE SetMin(Range(mn.to_process))
           max_seq == Max(mn.highest, mn.current_seq)
           gaps == IF mn.highest > 0 /\ mn.lowest > 0
                   THEN FindAllSequenceGaps(seqtab, min_seq, max_seq)
                   ELSE <<>>
       IN mn' = [mn EXCEPT !.pc = IF gaps = <<>> THEN "returned" ELSE "gaps", !.gaps = gaps,
                           !.last_seq = tip]
    /\ UNCHANGED <<store, contentVars, upsertVars, harnessVars, running, seqtab, sequence_queue,
                   unfinished, failed_sequences, wk, rm, attempts, faults, retry_queue, tip>>

\* `seq = final_queue.get()' and the start of process_sequence(seq, ...)
\* in the main thread: update_sequence_status(seq, "processing")
MainGapGet ==
    /\ mn.pc = "gaps"
    /\ seqtab' = UpdateSequenceStatus(seqtab, Head(mn.gaps), "processing", FALSE)
    /\ attempts' = [attempts EXCEPT ![Head(mn.gaps)] = @ + 1]
    /\ mn' = [mn EXCEPT !.pc = "gapfetch"]
    /\ UNCHANGED <<store, contentVars, upsertVars, harnessVars, running, sequence_queue, unfinished,
                   failed_sequences, wk, rm, faults, retry_queue, tip>>

\* The rest of that process_sequence call, with retry_count 0. Its result
\* is not read; when it raises, the exception leaves main() and the process
\* ends with its daemon threads.
MainGapProcess(outcome) ==
    /\ mn.pc = "gapfetch"
    /\ OutcomePossible(Head(mn.gaps), outcome)
    /\ LET s == Head(mn.gaps)
           res == ProcessSequence(store, seqtab, failed_sequences, feed, batch_size,
                                  cutoff_date, s, 0, outcome)
       IN /\ WithinBounds(res.store)
          /\ store' = res.store
          /\ seqtab' = res.seqtab
          /\ failed_sequences' = res.failed
          /\ faults' = IF outcome = "error" THEN [faults EXCEPT ![s] = @ + 1] ELSE faults
          /\ IF res.result = "raise"
             THEN /\ mn' = [mn EXCEPT !.pc = "crashed", !.gaps = <<>>]
                  /\ wk' = [w \in Workers |-> [wk[w] EXCEPT !.pc = "exited"]]
                  /\ rm' = [rm EXCEPT !.pc = "exited"]
             ELSE /\ mn' = [mn EXCEPT !.pc = IF Tail(mn.gaps) = <<>> THEN "returned"
                                             ELSE "gaps",
                                      !.gaps = Tail(mn.gaps), !.last_seq = tip]
                  /\ UNCHANGED <<wk, rm>>
    /\ UNCHANGED <<contentVars, upsertVars, harnessVars, running, sequence_queue, unfinished, attempts,
                   retry_queue, tip>>

(***************************************************************************)
(* Spec: the daemon from the start of backfill_changesets_mt               *)
(***************************************************************************)
Old1 == [id |-> 1, closed_at |-> 1, open |-> FALSE, comments |-> <<>>]
New2 == [id |-> 2, closed_at |-> MaxTime, open |-> FALSE, comments |-> <<1>>]
Open2 == [id |-> 2, closed_at |-> NULL, open |-> TRUE, comments |-> <<>>]

\* The feeds the daemon reads. The files hold a changeset already stored and
\* not newer than the cutoff, a new closed changeset, or an open changeset;
\* the file that reaches the cutoff is the newest one or the oldest one.
FeedCutoffFirst ==
    [s \in PSeqs |-> IF s = Tip THEN <<Old1>> ELSE <<New2>>]
FeedCutoffLater ==
    [s \in PSeqs |-> IF s = 1 THEN <<Old1>> ELSE IF s = Tip THEN <<Open2>> ELSE <<New2>>]
DaemonFeeds == {FeedCutoffFirst, FeedCutoffLater}

\* The sequences table the daemon finds: empty, or left by an earlier run.
InitialTables ==
    {[s \in PSeqs |-> NoSeqRow],
     [s \in PSeqs |-> IF s = 1 THEN [status |-> "backfilled", error |-> FALSE]
                      ELSE NoSeqRow]}

\* The state in which main() calls backfill_changesets_mt after an archive load.
AfterArchiveLoad ==
    /\ store = [i \in Ids |-> IF i = 1 THEN InsertRow(ParseChangeset(Old1)[1]) ELSE NoRow]
    /\ cutoff_date = MostRecentClosedAt(store)
    /\ batch_size = 2
    /\ feed \in DaemonFeeds
    /\ done = {}
    /\ last = NoCall
    /\ up = [t \in Threads |-> NoUpsert]
    /\ lastup = NoUpsertDone
    /\ running = TRUE
    /\ seqtab \in InitialTables
    /\ sequence_queue = <<>>
    /\ unfinished = 0
    /\ failed_sequences = <<>>
    /\ wk = [w \in Workers |-> IdleWorker]
    /\ rm = IdleRetryManager
    /\ mn = MainAtStart
    /\ attempts = [s \in PSeqs |-> 0]
    /\ faults = [s \in PSeqs |-> 0]
    /\ retry_queue = <<>>
    /\ tip = Tip
    /\ rows = <<>>
    /\ pool = NoPool
    /\ al = NoLoader
    /\ since_request = THROTTLE_DELAY
    /\ px = NoParse
    /\ tx = NoTx

\* main() up to the call of backfill_changesets_mt: without a changeset in
\* the store it logs an error and leaves with sys.exit(1).
MainBegin ==
    /\ mn.pc = "main"
    /\ cutoff_date' = MostRecentClosedAt(store)
    /\ mn' = [mn EXCEPT !.pc = IF MostRecentClosedAt(store) = NULL THEN "exit1" ELSE "start"]
    /\ UNCHANGED <<store, batch_size, feed, done, last, upsertVars, harnessVars, running, seqtab,
                   sequence_queue, unfinished, failed_sequences, wk, rm, attempts, faults,
                   retry_queue, tip>>

\* The daemon is started on a store that holds changeset 1, or on an empty one.
Init ==
    /\ store \in {[i \in Ids |-> IF i = 1 THEN InsertRow(ParseChangeset(Old1)[1]) ELSE NoRow],
                  [i \in Ids |-> NoRow]}
    /\ cutoff_date = NULL
    /\ batch_size = 2
    /\ feed \in DaemonFeeds
    /\ done = {}
    /\ last = NoCall
    /\ up = [t \in Threads |-> NoUpsert]
    /\ lastup = NoUpsertDone
    /\ running = TRUE
    /\ seqtab \in InitialTables
    /\ sequence_queue = <<>>
    /\ unfinished = 0
    /\ failed_sequences = <<>>
    /\ wk = [w \in Workers |-> IdleWorker]
    /\ rm = IdleRetryManager
    /\ mn = [MainAtStart EXCEPT !.pc = "main"]
    /\ attempts = [s \in PSeqs |-> 0]
    /\ faults = [s \in PSeqs |-> 0]
    /\ retry_queue = <<>>
    /\ tip = Tip
    /\ rows = <<>>
    /\ pool = NoPool
    /\ al = NoLoader
    /\ since_request = THROTTLE_DELAY
    /\ px = NoParse
    /\ tx = NoTx

Next ==
    \/ MainBegin
    \/ MainStart
    \/ MainJoin
    \/ MainGapGet
    \/ \E outcome \in Outcomes : MainGapProcess(outcome)
    \/ \E w \in Workers : WorkerStop(w)
    \/ \E w \in Workers : WorkerGetToken(w)
    \/ \E w \in Workers : WorkerGet(w)
    \/ \E w \in Workers, outcome \in Outcomes : WorkerProcess(w, outcome)
    \/ \E w \in Workers : WorkerTokens(w)
    \/ RetryStop
    \/ RetryHandOver
    \/ RetryScanRead
    \/ RetryScanPut
    \/ Tick
    \/ Signal

Spec == Init /\ [][Next]_vars

(***************************************************************************)
(* SpecStart: backfill_changesets_mt called on any sequences table and any *)
(* tip, up to the point where the queue is filled and the threads are      *)
(* started.                                                                *)
(***************************************************************************)
\* The rows a run of the daemon can leave for one sequence number: none,
\* or one of the four statuses process_sequence writes (a `processing' row
\* is left by a run that ended during the call).
SeqRows ==
    {NoSeqRow, [status |-> "failed", error |-> TRUE]}
    \cup [status : {"processing", "backfilled", "empty"}, error : {FALSE}]

InitStart ==
    /\ store = [i \in Ids |-> IF i = 1 THEN InsertRow(ParseChangeset(Old1)[1]) ELSE NoRow]
    /\ cutoff_date = MostRecentClosedAt(store)
    /\ batch_size = 2
    /\ feed = FeedCutoffFirst
    /\ done = {}
    /\ last = NoCall
    /\ up = [t \in Threads |-> NoUpsert]
    /\ lastup = NoUpsertDone
    /\ running = TRUE
    /\ seqtab \in [PSeqs -> SeqRows]
    /\ sequence_queue = <<>>
    /\ unfinished = 0
    /\ failed_sequences = <<>>
    /\ wk = [w \in Workers |-> IdleWorker]
    /\ rm = IdleRetryManager
    /\ mn = MainAtStart
    /\ attempts = [s \in PSeqs |-> 0]
    /\ faults = [s \in PSeqs |-> 0]
    /\ retry_queue = <<>>
    /\ tip \in PSeqs
    /\ rows = <<>>
    /\ pool = NoPool
    /\ al = NoLoader
    /\ since_request = THROTTLE_DELAY
    /\ px = NoParse
    /\ tx = NoTx

NextStart == MainStart

SpecStart == InitStart /\ [][NextStart]_vars

(***************************************************************************)
(* Claims checked under SpecStart                                          *)
(***************************************************************************)
\* backfill_changesets_mt has filled the queue (or has found nothing to do).
Scheduled == mn.pc \in {"join", "returned"}

\* The sequence numbers on the queue, in queue order.
QueuedSeqs == [k \in 1..Len(sequence_queue) |-> sequence_queue[k].seq]

\* How many times s is on the queue.
TimesQueued(s) == Cardinality({k \in 1..Len(sequence_queue) : sequence_queue[k].seq = s})

\* The rows with a terminal status.
Terminated == {s \in PSeqs : seqtab[s].status \in {"backfilled", "empty"}}

RECURSIVE Above(_, _)
\* The numbers of q that are greater than h, in the order of q.
Above(q, h) ==
    IF q = <<>> THEN <<>>
    ELSE (IF Head(q) > h THEN <<Head(q)>> ELSE <<>>) \o Above(Tail(q), h)

\* C11: when the highest terminated sequence H is below the tip T, the
\* numbers above H on the queue are H+1, H+2, ..., T, each once and in
\* ascending order.
C11_CatchUpForward ==
    (Scheduled /\ Terminated # {} /\ SetMax(Terminated) < tip) =>
        Above(QueuedSeqs, SetMax(Terminated))
            = [k \in 1..(tip - SetMax(Terminated)) |-> SetMax(Terminated) + k]

\* C12: every number between the lowest and the highest terminated
\* sequence whose row is missing or not terminal is on the queue, once, and
\* no number between them whose row is terminal is on the queue.
C12_GapFill ==
    (Scheduled /\ Terminated # {}) =>
        \A s \in SetMin(Terminated)..SetMax(Terminated) :
            TimesQueued(s) = IF s \in Terminated THEN 0 ELSE 1

\* C12 witness: a failed row lies between two terminal rows and is on the
\* queue, while the terminal rows are not.
C12_Witness ==
    /\ Scheduled /\ Terminated # {}
    /\ \E s \in SetMin(Terminated)..SetMax(Terminated) :
          seqtab[s].status = "failed" /\ TimesQueued(s) = 1
    /\ \A s \in Terminated : TimesQueued(s) = 0

\* C18: no sequence number is on the queue while its row is `processing':
\* such a row is first reclaimed to `failed'.
C18_NoProcessingRowEnqueued ==
    \A k \in 1..Len(sequence_queue) :
        sequence_queue[k] # Token => seqtab[sequence_queue[k].seq].status # "processing"

(***************************************************************************)
(* SpecStatus: the workers' update_sequence_status calls, each one         *)
(* statement and its commit, on the sequences table as a heap of rows.     *)
(***************************************************************************)
\* INSERT INTO sequences ... without the ON CONFLICT clause
InsertSequenceRow(rws, s, status, err) ==
    Append(rws, [sequence_number |-> s, status |-> status, error |-> err])

\* INSERT INTO sequences ... ON CONFLICT (sequence_number) DO UPDATE SET
\* status = EXCLUDED.status, error_message = EXCLUDED.error_message
UpsertSequenceRow(rws, s, status, err) ==
    IF \E k \in 1..Len(rws) : rws[k].sequence_number = s
    THEN [k \in 1..Len(rws) |->
             IF rws[k].sequence_number = s
             THEN [rws[k] EXCEPT !.status = status, !.error = err]
             ELSE rws[k]]
    ELSE Append(rws, [sequence_number |-> s, status |-> status, error |-> err])

\* process_sequence(s, ...) begins in worker w:
\* update_sequence_status(seq_number, "processing")
StatusProcessing(w, s) ==
    /\ wk[w].pc = "top"
    /\ rows' = UpsertSequenceRow(rows, s, "processing", FALSE)
    /\ wk' = [wk EXCEPT ![w].pc = "fetch", ![w].seq = s]
    /\ UNCHANGED <<store, contentVars, upsertVars, running, seqtab, sequence_queue,
                   unfinished, failed_sequences, rm, mn, attempts, faults, retry_queue, tip,
                   pool, al, since_request, px, tx>>

\* The call ends: update_sequence_status(seq_number, "backfilled"),
\* (seq_number, "empty") or (seq_number, "failed", error_message=str(e))
StatusResult(w, status) ==
    /\ wk[w].pc = "fetch"
    /\ rows' = UpsertSequenceRow(rows, wk[w].seq, status, status = "failed")
    /\ wk' = [wk EXCEPT ![w].pc = "top"]
    /\ UNCHANGED <<store, contentVars, upsertVars, running, seqtab, sequence_queue,
                   unfinished, failed_sequences, rm, mn, attempts, faults, retry_queue, tip,
                   pool, al, since_request, px, tx>>

InitStatus ==
    /\ store = [i \in Ids |-> IF i = 1 THEN InsertRow(ParseChangeset(Old1)[1]) ELSE NoRow]
    /\ cutoff_date = MostRecentClosedAt(store)
    /\ batch_size = 2
    /\ feed = FeedCutoffFirst
    /\ done = {}
    /\ last = NoCall
    /\ up = [t \in Threads |-> NoUpsert]
    /\ lastup = NoUpsertDone
    /\ running = TRUE
    /\ seqtab = [s \in PSeqs |-> NoSeqRow]
    /\ sequence_queue = <<>>
    /\ unfinished = 0
    /\ failed_sequences = <<>>
    /\ wk = [w \in Workers |-> [IdleWorker EXCEPT !.pc = "top"]]
    /\ rm = IdleRetryManager
    /\ mn = MainAtStart
    /\ attempts = [s \in PSeqs |-> 0]
    /\ faults = [s \in PSeqs |-> 0]
    /\ retry_queue = <<>>
    /\ tip = Tip
    /\ rows = <<>>
    /\ pool = NoPool
    /\ al = NoLoader
    /\ since_request = THROTTLE_DELAY
    /\ px = NoParse
    /\ tx = NoTx

NextStatus ==
    \/ \E w \in Workers, s \in SeqNums : StatusProcessing(w, s)
    \/ \E w \in Workers, status \in {"backfilled", "empty", "failed"} : StatusResult(w, status)

SpecStatus == InitStatus /\ [][NextStatus]_vars

(***************************************************************************)
(* Claims checked under SpecStatus                                         *)
(***************************************************************************)
\* C16: the sequences table never holds two rows with the same sequence
\* number, and the status of every row is processing, backfilled, empty or
\* failed.
C16_OneRowPerSequence ==
    /\ \A j, k \in 1..Len(rows) :
          j # k => rows[j].sequence_number # rows[k].sequence_number
    /\ \A k \in 1..Len(rows) :
          rows[k].status \in {"processing", "backfilled", "empty", "failed"}

\* C16 witness: both workers are inside process_sequence for the same
\* sequence number, whose row an earlier call had left `failed', and the
\* table holds a row of another sequence too.
C16_Witness ==
    /\ wk[1].pc = "fetch" /\ wk[2].pc = "fetch" /\ wk[1].seq = wk[2].seq
    /\ Len(rows) = 2
    /\ \E k \in 1..2 : rows[k].sequence_number # wk[1].seq /\ rows[k].status = "failed"

(***************************************************************************)
(* SpecSequence: one thread calling process_sequence, on any sequence      *)
(* number, with any retry_count and any outcome of the download, any       *)
(* number of times.                                                        *)
(***************************************************************************)
\* process_sequence(s, batch_size, cutoff_date, retry) from its first
\* statement to its return or raise.
ProcessOne(s, retry, outcome) ==
    /\ OutcomePossible(s, outcome)
    /\ LET res == ProcessSequence(store,
                                  UpdateSequenceStatus(seqtab, s, "processing", FALSE),
                                  failed_sequences, feed, batch_size, cutoff_date,
                                  s, retry, outcome)
           read == outcome \in {"ok", "dbfail"}
           r == ProcessReplicationContent(store, feed[s], batch_size, cutoff_date,
                                          outcome = "dbfail")
       IN /\ WithinBounds(res.store)
          /\ store' = res.store
          /\ seqtab' = res.seqtab
          /\ failed_sequences' = res.failed
          /\ last' = [called |-> TRUE, seq |-> s, pre |-> store,
                      inserted |-> IF read THEN r.inserted ELSE 0,
                      reached |-> read /\ r.reached,
                      parsed |-> IF read THEN r.parsed ELSE 0,
                      again |-> s \in done, dbfail |-> outcome = "dbfail",
                      outcome |-> outcome, fq |-> failed_sequences,
                      written |-> IF outcome = "ok" THEN r.writes ELSE 0]
    /\ done' = IF outcome = "ok" THEN done \cup {s} ELSE done
    /\ faults' = IF outcome = "error" THEN [faults EXCEPT ![s] = @ + 1] ELSE faults
    /\ since_request' = 0    \* download_and_decompress: requests.get(url)
    /\ UNCHANGED <<cutoff_date, batch_size, feed, upsertVars, rows, pool, al, px, tx, running,
                   sequence_queue, unfinished, wk, rm, mn, attempts, retry_queue, tip>>

NextSequence ==
    \E s \in SeqNums, retry \in 0..MAX_RETRIES, outcome \in Outcomes : ProcessOne(s, retry, outcome)

SpecSequence == AfterArchiveLoad /\ [][NextSequence]_vars

(***************************************************************************)
(* Claims checked under SpecSequence                                       *)
(***************************************************************************)
\* C6: after a process_sequence call whose download got HTTP 404 the
\* sequence's row is `empty', the changesets table is as it was before the
\* call, and so is the retry queue.
C6_NotFoundIsEmpty ==
    last.outcome = "404" =>
        /\ seqtab[last.seq] = [status |-> "empty", error |-> FALSE]
        /\ store = last.pre
        /\ failed_sequences = last.fq

\* C6 witness: a 404 on a sequence that an earlier attempt had left `failed'
\* with a retry waiting.
C6_Witness ==
    /\ last.outcome = "404"
    /\ seqtab[last.seq].status = "empty"
    /\ \E k \in 1..Len(failed_sequences) : failed_sequences[k].seq = last.seq

\* C17: after a process_sequence call that met no error (the file was read
\* and written without fault, or was absent) the sequence's row is
\* `backfilled' if an INSERT ... ON CONFLICT statement wrote rows of the file
\* to the changesets table, and `empty' if none did.
C17_BackfilledIffRowsWritten ==
    last.outcome \in {"ok", "404"} =>
        seqtab[last.seq].status = IF last.written > 0 THEN "backfilled" ELSE "empty"

(***************************************************************************)
(* SpecCont: main() when the sequences table is up to date with the state  *)
(* file, so that backfill_changesets_mt returns without starting a thread  *)
(* and continuous_update_mt takes over. The workers of a finished round    *)
(* poll a queue nobody writes to any more; the model forgets them when the *)
(* next round starts.                                                      *)
(***************************************************************************)
\* The feed publishes its next file.
NewSequence ==
    /\ tip < MaxSeq
    /\ tip' = tip + 1
    /\ UNCHANGED <<store, contentVars, upsertVars, harnessVars, running, seqtab, sequence_queue,
                   unfinished, failed_sequences, wk, rm, mn, attempts, faults, retry_queue>>

\* main: `if running: continuous_update_mt(batch_size, highest_seq, ...)',
\* which starts a retry manager on a queue of its own, retry_queue. rm is
\* that thread from here on, whether or not the backfill had started one.
ContinuousStart ==
    /\ mn.pc = "returned"
    /\ running
    /\ rm' = [IdleRetryManager EXCEPT !.pc = "loop", !.target = "retry_queue"]
    /\ mn' = [mn EXCEPT !.pc = "poll"]
    /\ UNCHANGED <<store, contentVars, upsertVars, harnessVars, running, seqtab, sequence_queue,
                   unfinished, failed_sequences, wk, attempts, faults, retry_queue, tip>>

\* range(last_seq, current_seq + 1)
RangeFromLastSeq(last_seq, current_seq) ==
    [k \in 1..(current_seq - last_seq + 1) |-> last_seq + k - 1]

\* range(last_seq + 1, current_seq + 1)
NewSequences(last_seq, current_seq) ==
    [k \in 1..(current_seq - last_seq) |-> last_seq + k]

\* One poll that finds new sequences: a new sequence_queue holding
\* last_seq + 1 .. current_seq and min(MAX_WORKERS, current_seq - last_seq)
\* new workers on it.
ContinuousPoll ==
    /\ mn.pc = "poll"
    /\ running
    /\ tip > mn.last_seq
    /\ LET new == NewSequences(mn.last_seq, tip) IN
       /\ sequence_queue' = [k \in 1..Len(new) |-> [seq |-> new[k], retry |-> 0]]
       /\ unfinished' = Len(new)
       /\ wk' = [w \in Workers |-> IF w <= tip - mn.last_seq
                                   THEN [IdleWorker EXCEPT !.pc = "top"]
                                   ELSE IdleWorker]
    /\ mn' = [mn EXCEPT !.pc = "cjoin", !.current_seq = tip]
    /\ UNCHANGED <<store, contentVars, upsertVars, harnessVars, running, seqtab, failed_sequences,
                   rm, attempts, faults, retry_queue, tip>>

\* sequence_queue.join() returns: last_seq = current_seq. The round's
\* `workers' list is dropped with its queue, and so are its records here.
ContinuousJoin ==
    /\ mn.pc = "cjoin"
    /\ unfinished = 0
    /\ mn' = [mn EXCEPT !.pc = "poll", !.last_seq = mn.current_seq]
    /\ wk' = [w \in Workers |-> IdleWorker]
    /\ UNCHANGED <<store, contentVars, upsertVars, harnessVars, running, seqtab, sequence_queue,
                   unfinished, failed_sequences, rm, attempts, faults, retry_queue, tip>>

\* `while running:' is false in continuous_update_mt, or `if running:' in
\* main: the process ends with its daemon threads.
MainFinish ==
    /\ mn.pc \in {"returned", "poll"}
    /\ ~running
    /\ mn' = [mn EXCEPT !.pc = "finished"]
    /\ wk' = [w \in Workers |-> [wk[w] EXCEPT !.pc = "exited"]]
    /\ rm' = [rm EXCEPT !.pc = "exited"]
    /\ UNCHANGED <<store, contentVars, upsertVars, harnessVars, running, seqtab, sequence_queue,
                   unfinished, failed_sequences, attempts, faults, retry_queue, tip>>

\* The state file names sequence 1, which an earlier run has processed.
InitCont ==
    /\ store = [i \in Ids |-> IF i = 1 THEN InsertRow(ParseChangeset(Old1)[1]) ELSE NoRow]
    /\ cutoff_date = NULL
    /\ batch_size = 2
    /\ feed \in DaemonFeeds
    /\ done = {}
    /\ last = NoCall
    /\ up = [t \in Threads |-> NoUpsert]
    /\ lastup = NoUpsertDone
    /\ running = TRUE
    /\ seqtab = [s \in PSeqs |-> IF s = 1 THEN [status |-> "backfilled", error |-> FALSE]
                                 ELSE NoSeqRow]
    /\ sequence_queue = <<>>
    /\ unfinished = 0
    /\ failed_sequences = <<>>
    /\ wk = [w \in Workers |-> IdleWorker]
    /\ rm = IdleRetryManager
    /\ mn = [MainAtStart EXCEPT !.pc = "main"]
    /\ attempts = [s \in PSeqs |-> 0]
    /\ faults = [s \in PSeqs |-> 0]
    /\ retry_queue = <<>>
    /\ tip = 1
    /\ rows = <<>>
    /\ pool = NoPool
    /\ al = NoLoader
    /\ since_request = THROTTLE_DELAY
    /\ px = NoParse
    /\ tx = NoTx

NextCont ==
    \/ MainBegin
    \/ MainStart
    \/ ContinuousStart
    \/ ContinuousPoll
    \/ ContinuousJoin
    \/ MainFinish
    \/ NewSequence
    \/ \E w \in Workers : WorkerStop(w)
    \/ \E w \in Workers : WorkerGetToken(w)
    \/ \E w \in Workers : WorkerGet(w)
    \/ \E w \in Workers, outcome \in Outcomes : WorkerProcess(w, outcome)
    \/ \E w \in Workers : WorkerTokens(w)
    \/ RetryStop
    \/ RetryHandOver
    \/ RetryScanRead
    \/ RetryScanPut
    \/ Tick
    \/ Signal

SpecCont == InitCont /\ [][NextCont]_vars

(***************************************************************************)
(* Claims checked under Spec                                               *)
(***************************************************************************)
\* C4: while the workers and the retry manager serve the queue (before the
\* main thread's final gap check), a sequence whose download has failed
\* max_retries + 1 times has had at most max_retries + 1 process_sequence
\* calls: it is not attempted again.
C4_BoundedRetries ==
    mn.pc \in {"start", "join"} =>
        \A s \in PSeqs : faults[s] >= MAX_RETRIES + 1 => attempts[s] <= MAX_RETRIES + 1

\* C7: the step of a worker during which the database rejects a batch
\* leaves the sequence's row `failed'.
C7_WriteFailureMarksFailed ==
    [][\A w \in Workers :
          (wk[w].pc = "fetch" /\ wk'[w].pc # "fetch" /\ wk'[w].outcome = "dbfail")
              => seqtab'[wk[w].seq].status = "failed"]_vars

\* A worker has reported reached_cutoff and has put the stop tokens.
CutoffReported == \E w \in Workers : wk[w].result = "true" /\ wk[w].pc = "exited"

\* C8: once the stop tokens are on the queue and every worker has ended,
\* no task is left unfinished, so that sequence_queue.join() returns.
C8_JoinReturnsAfterStop ==
    (CutoffReported /\ \A w \in Workers : wk[w].pc = "exited") => unfinished = 0

\* C9: after a worker has reported reached_cutoff and has put the stop
\* tokens, no worker takes a sequence number from the queue.
C9_NoFetchAfterCutoff ==
    [][CutoffReported
          => \A w \in Workers : ~(wk[w].pc = "top" /\ wk'[w].pc = "fetch")]_vars

\* main() or the process has ended.
DaemonEnded == mn.pc \in {"exit1", "returned", "crashed", "finished"}

\* C14: a daemon started against an empty store (main found no closed_at
\* to take as cutoff) does not end before sequence T has been enqueued and
\* processed: the row of sequence T is `backfilled' and a closed changeset
\* is stored with open = false.
C14_FreshStartBackfillsTip ==
    (DaemonEnded /\ cutoff_date = NULL) =>
        /\ seqtab[tip].status = "backfilled"
        /\ \E i \in Ids : store[i].present /\ ~store[i].open

\* C15: no step changes the status of a row that is `backfilled' or `empty'.
C15_TerminalStatusKept ==
    [][\A s \in PSeqs :
          seqtab[s].status \in {"backfilled", "empty"}
              => seqtab'[s].status = seqtab[s].status]_vars

\* C19: never are two workers, or a worker and the main thread in its final
\* gap check, inside process_sequence for the same sequence number.
C19_OneThreadPerSequence ==
    /\ \A v, w \in Workers :
          (v # w /\ wk[v].pc = "fetch" /\ wk[w].pc = "fetch") => wk[v].seq # wk[w].seq
    /\ \A w \in Workers :
          (wk[w].pc = "fetch" /\ mn.pc = "gapfetch") => wk[w].seq # Head(mn.gaps)

\* C20: after the signal, once every worker and the retry manager have
\* ended, the main thread is not left waiting in sequence_queue.join() for
\* tasks that no thread will ever mark done.
C20_ShutdownEndsJoin ==
    (~running /\ rm.pc = "exited" /\ \A w \in Workers : wk[w].pc = "exited")
        => ~(mn.pc = "join" /\ unfinished > 0)

\* C28: once the pipeline is closed, a worker having sent the stop tokens
\* after reporting the cutoff or shutdown having been requested, no step of
\* retry_manager_thread moves an item from failed_sequences to the
\* scheduler queue.
C28_NoRequeueAfterClose ==
    [][(CutoffReported \/ ~running)
       => ~ ( /\ Len(failed_sequences') < Len(failed_sequences)
              /\ Len(sequence_queue') > Len(sequence_queue) )]_vars

(***************************************************************************)
(* Claims checked under SpecCont                                           *)
(***************************************************************************)
\* C5: in continuous mode the retry manager hands a due retry to a queue
\* that workers read, never to one that no thread takes items from.
C5_RetryHandedToWorkers == retry_queue = <<>>

\* C29: in continuous mode a round of workers never ends with items still
\* counted on the queue of the round: when every worker of the round has
\* left its loop while the process runs, sequence_queue.join() can return
\* and the next poll takes place, whatever reached_cutoff value was returned.
C29_CutoffDoesNotStopPolling ==
    ( /\ mn.pc = "cjoin"
      /\ running
      /\ \A w \in Workers : wk[w].pc \in {"unstarted", "exited"} )
    => unfinished = 0

(***************************************************************************)
(* SpecPoll: main() and continuous_update_mt as in SpecCont, in the        *)
(* minutes in which the retry manager's five-minute scan of the sequences  *)
(* table does not run.                                                     *)
(***************************************************************************)
NextPoll ==
    \/ MainBegin
    \/ MainStart
    \/ ContinuousStart
    \/ ContinuousPoll
    \/ ContinuousJoin
    \/ MainFinish
    \/ NewSequence
    \/ \E w \in Workers : WorkerStop(w)
    \/ \E w \in Workers : WorkerGetToken(w)
    \/ \E w \in Workers : WorkerGet(w)
    \/ \E w \in Workers, outcome \in Outcomes : WorkerProcess(w, outcome)
    \/ \E w \in Workers : WorkerTokens(w)
    \/ RetryStop
    \/ RetryHandOver
    \/ Tick
    \/ Signal

SpecPoll == InitCont /\ [][NextPoll]_vars

(***************************************************************************)
(* SpecHandOff: main() from its start through a backfill that has work to  *)
(* do and on into continuous_update_mt, while the feed publishes files.    *)
(***************************************************************************)
NextHandOff ==
    \/ NextPoll
    \/ MainJoin
    \/ MainGapGet
    \/ \E outcome \in Outcomes : MainGapProcess(outcome)

SpecHandOff == InitCont /\ [][NextHandOff]_vars

\* Worker threads that have been started and have not ended.
AliveWorkers == {w \in Workers : wk[w].pc \notin {"unstarted", "exited"}}

\* C36: no sequence is skipped at the hand-off from the backfill to the
\* continuous mode: every sequence above the tip that backfill_changesets_mt
\* read at its start and up to the last_seq it hands to continuous_update_mt
\* has been put on a queue, also when the feed advanced during the backfill.
C36_NoSequenceSkippedAtHandOff ==
    mn.pc \in {"returned", "poll"}
    => \A s \in PSeqs :
           mn.current_seq < s /\ s <= mn.last_seq
           => \/ attempts[s] > 0
              \/ \E k \in 1..Len(sequence_queue) : sequence_queue[k].seq = s

\* C39: at most MAX_WORKERS worker threads are alive at any time: when
\* continuous_update_mt starts the workers of a round, the workers of the
\* backfill and of the earlier rounds have ended.
C39_EarlierWorkersExited ==
    [][mn.pc = "poll" /\ mn'.pc = "cjoin"
         => Cardinality(AliveWorkers)
              + Cardinality({w \in Workers : wk'[w].pc = "top"}) <= MAX_WORKERS]_vars

(***************************************************************************)
(* Claims checked under SpecPoll                                           *)
(***************************************************************************)
\* C13: a poll of continuous_update_mt that finds the tip above last_seq
\* puts exactly last_seq + 1, ..., tip on the new queue, each once and in
\* this order; while the tip is not above last_seq no step puts anything on
\* the queue; and last_seq never decreases.
C13_PollEnqueuesNewRange ==
    [][/\ (mn.pc = "poll" /\ mn'.pc = "cjoin") =>
             /\ tip > mn.last_seq
             /\ QueuedSeqs' = [k \in 1..(tip - mn.last_seq) |-> mn.last_seq + k]
       /\ (mn.pc = "poll" /\ tip <= mn.last_seq) =>
             Len(sequence_queue') <= Len(sequence_queue)
       /\ (mn.pc \in {"poll", "cjoin"} /\ mn'.pc \in {"poll", "cjoin"}) =>
             mn'.last_seq >= mn.last_seq]_vars

\* C13 witness: after a first round, a second poll has found one more
\* sequence and its queue still holds it.
C13_Witness ==
    /\ mn.pc = "cjoin" /\ mn.last_seq = 2 /\ mn.current_seq = 3
    /\ QueuedSeqs = <<3>>

\* C25: the step in which a worker's process_sequence meets a fetch,
\* decompression or stream-parse error leaves that sequence's row `failed'
\* with an error_message, and leaves the worker at the top of its loop, where
\* it takes the next queue item.
C25_FetchErrorMarksFailed ==
    [][\A w \in Workers :
          (wk[w].pc = "fetch" /\ wk'[w].outcome = "error")
          => /\ seqtab'[wk[w].seq].status = "failed"
             /\ seqtab'[wk[w].seq].error
             /\ wk'[w].pc = "top"]_vars

\* C25 witness: a worker is back at the top of its loop after an error, the
\* row is `failed' with its message, and the next sequence waits in the queue.
C25_Witness ==
    \E w \in Workers :
        /\ wk[w].outcome = "error" /\ wk[w].pc = "top"
        /\ seqtab[wk[w].seq].status = "failed" /\ seqtab[wk[w].seq].error
        /\ running
        /\ sequence_queue # <<>> /\ Head(sequence_queue) # Token


(***************************************************************************)
(* SpecPool: the connection pool of backfill.py, used by PoolThreads        *)
(* threads that take and give back connections in any order; the server     *)
(* may close a connection at any time.                                      *)
(***************************************************************************)
\* A state of everything but the part a specification is about.
Elsewhere ==
    /\ store = [i \in Ids |-> NoRow]
    /\ cutoff_date = NULL
    /\ batch_size = 1
    /\ feed = [s \in SeqNums |-> <<>>]
    /\ done = {}
    /\ last = NoCall
    /\ up = [t \in Threads |-> NoUpsert]
    /\ lastup = NoUpsertDone
    /\ ThreadsNotStarted
    /\ rows = <<>>

\* q without its k-th element
RemoveAt(q, k) == SubSeq(q, 1, k - 1) \o SubSeq(q, k + 1, Len(q))

\* return_db_connection_to_pool that releases the semaphore for every
\* connection it is given
ReturnAlwaysReleasing(p, conn) ==
    [p EXCEPT !.sem = @ + 1,
              !.idle = IF conn = "closed" THEN @ ELSE Append(@, conn),
              !.released = @ \/ conn = "closed"]

\* return_db_connection_to_pool(conn): a closed connection gives its permit
\* back; any other goes to db_pool and keeps it.
ReturnToPool(p, conn) ==
    IF conn = "closed"
    THEN [p EXCEPT !.sem = @ + 1, !.released = TRUE]
    ELSE [p EXCEPT !.idle = Append(@, conn)]

\* get_db_connection_from_pool, under db_pool_lock: `if db_pool: conn =
\* db_pool.pop()', and the return of that connection; with an empty pool the
\* thread goes on to the semaphore.
PoolPop(t) ==
    /\ pool.th[t].pc = "out"
    /\ Len(pool.th[t].held) < MaxHeld
    /\ pool' = IF pool.idle # <<>>
               THEN [pool EXCEPT !.idle = SubSeq(@, 1, Len(@) - 1),
                                 !.th[t].held = Append(@, pool.idle[Len(pool.idle)])]
               ELSE [pool EXCEPT !.th[t].pc = "acquire"]
    /\ UNCHANGED <<store, contentVars, upsertVars, daemonVars, rows, al, since_request, px, tx>>

\* db_pool_semaphore.acquire(blocking=True, timeout=10.0): a permit is taken,
\* or none came free within the timeout and the call raises.
PoolAcquire(t) ==
    /\ pool.th[t].pc = "acquire"
    /\ pool' = IF pool.sem > 0
               THEN [pool EXCEPT !.sem = @ - 1, !.th[t].pc = "connect"]
               ELSE [pool EXCEPT !.th[t].pc = "out"]
    /\ UNCHANGED <<store, contentVars, upsertVars, daemonVars, rows, al, since_request, px, tx>>

\* conn = get_db_connection(): the new connection is returned to the caller,
\* or the connect fails, the permit is released and the exception raised.
PoolConnect(t, ok) ==
    /\ pool.th[t].pc = "connect"
    /\ pool' = IF ok
               THEN [pool EXCEPT !.th[t].pc = "out", !.th[t].held = Append(@, "open")]
               ELSE [pool EXCEPT !.th[t].pc = "out", !.sem = @ + 1]
    /\ UNCHANGED <<store, contentVars, upsertVars, daemonVars, rows, al, since_request, px, tx>>

\* The thread gives back the k-th connection it holds.
PoolReturn(t, k) ==
    /\ pool.th[t].pc = "out"
    /\ k \in 1..Len(pool.th[t].held)
    /\ pool' = ReturnToPool([pool EXCEPT !.th[t].held = RemoveAt(@, k)], pool.th[t].held[k])
    /\ UNCHANGED <<store, contentVars, upsertVars, daemonVars, rows, al, since_request, px, tx>>

\* The server closes a connection a thread holds.
HeldConnectionLost(t, k) ==
    /\ k \in 1..Len(pool.th[t].held)
    /\ pool.th[t].held[k] = "open"
    /\ pool' = [pool EXCEPT !.th[t].held[k] = "closed"]
    /\ UNCHANGED <<store, contentVars, upsertVars, daemonVars, rows, al, since_request, px, tx>>

\* The server closes a connection that lies in db_pool.
IdleConnectionLost(k) ==
    /\ k \in 1..Len(pool.idle)
    /\ pool.idle[k] = "open"
    /\ pool' = [pool EXCEPT !.idle[k] = "closed"]
    /\ UNCHANGED <<store, contentVars, upsertVars, daemonVars, rows, al, since_request, px, tx>>

InitPool ==
    /\ Elsewhere
    /\ pool = NoPool
    /\ al = NoLoader
    /\ since_request = THROTTLE_DELAY
    /\ px = NoParse
    /\ tx = NoTx

NextPool ==
    \/ \E t \in PoolThreads : PoolPop(t)
    \/ \E t \in PoolThreads : PoolAcquire(t)
    \/ \E t \in PoolThreads, ok \in BOOLEAN : PoolConnect(t, ok)
    \/ \E t \in PoolThreads, k \in 1..MaxHeld : PoolReturn(t, k)
    \/ \E t \in PoolThreads, k \in 1..MaxHeld : HeldConnectionLost(t, k)
    \/ \E k \in 1..MAX_DB_CONNECTIONS : IdleConnectionLost(k)

SpecPool == InitPool /\ [][NextPool]_vars

(***************************************************************************)
(* Claims checked under SpecPool                                           *)
(***************************************************************************)
\* The number of open connections in a sequence of connections
RECURSIVE OpenIn(_)
OpenIn(q) == IF q = <<>> THEN 0 ELSE (IF Head(q) = "open" THEN 1 ELSE 0) + OpenIn(Tail(q))

RECURSIVE HeldOpen(_)
HeldOpen(ts) ==
    IF ts = {} THEN 0
    ELSE LET t == CHOOSE x \in ts : TRUE IN OpenIn(pool.th[t].held) + HeldOpen(ts \ {t})

OpenConnections == OpenIn(pool.idle) + HeldOpen(PoolThreads)

\* C26: the open connections, those held by threads and those lying in
\* db_pool together, never number more than MAX_DB_CONNECTIONS.
C26_OpenConnectionsCapped == OpenConnections <= MAX_DB_CONNECTIONS

\* C26 witness: the cap is reached by connections held and idle, a closed
\* connection has been given back before, and a thread that found db_pool
\* empty waits for a permit that is not there.
C26_Witness ==
    /\ OpenConnections = MAX_DB_CONNECTIONS
    /\ pool.released
    /\ pool.sem = 0
    /\ \E t \in PoolThreads : pool.th[t].pc = "acquire"
    /\ \E t \in PoolThreads : pool.th[t].held # <<>>

(***************************************************************************)
(* SpecFetch: SpecSequence with a clock. since_request is the time since    *)
(* the last requests.get of the process, counted up to THROTTLE_DELAY.      *)
(* throttle() is defined in backfill.py and called nowhere, so no step of   *)
(* the program waits for the clock.                                         *)
(***************************************************************************)
\* Time passes.
Elapse ==
    /\ since_request < THROTTLE_DELAY
    /\ since_request' = since_request + 1
    /\ UNCHANGED <<store, contentVars, upsertVars, daemonVars, rows, pool, al, px, tx>>

NextFetch ==
    \/ NextSequence
    \/ Elapse

SpecFetch == AfterArchiveLoad /\ [][NextFetch]_vars

\* C27: every step that issues an HTTP request comes at least one
\* THROTTLE_DELAY after the request before it.
C27_RequestsPaced ==
    [][since_request' = 0 => since_request >= THROTTLE_DELAY]_vars

(***************************************************************************)
(* SpecLoad: archive_loader.py, process_changeset_file with its producer    *)
(* thread, the bounded work_queue and num_workers consumer threads. A file  *)
(* element is TRUE when should_process_changeset and parse_changeset accept *)
(* it; a batch is the sequence of the positions of its elements, and the    *)
(* None token is the empty sequence. A put or get with a timeout can wait   *)
(* or time out while the queue is full or empty.                            *)
(***************************************************************************)
LoaderToken == <<>>

\* queue.Queue(maxsize=0): a queue that is never full
AlwaysRoom(a) == TRUE

\* work_queue = queue.Queue(maxsize=config["queue_size"]): a put finds room
HasRoom(a) == Len(a.queue) < a.queue_size

\* work_queue.put that leaves out a batch shorter than batch_size
QueuePutFullBatchesOnly(a, item) ==
    IF item # <<>> /\ Len(item) < a.batch_size THEN a
    ELSE [a EXCEPT !.queue = Append(@, item), !.unfinished = @ + 1]

\* work_queue.put(item, timeout=...) that finds room
QueuePut(a, item) ==
    [a EXCEPT !.queue = Append(@, item), !.unfinished = @ + 1]

\* `while work_queue.qsize() >= queue_high_water_mark', with
\* queue_high_water_mark = config["queue_size"] * 0.8
AtHighWater(a) == 5 * Len(a.queue) >= 4 * a.queue_size

\* One `end' event of the producer's loop once the backpressure loop lets it
\* through: the element is appended to the batch if it is accepted, and a
\* batch of batch_size goes on the queue. queue.Full after the timeout is
\* re-raised into the `except Exception' of the loop body, which logs it:
\* the batch is kept and the loop goes on.
ProducerRead ==
    /\ al.ppc = "read"
    /\ al.pos < Len(al.file)
    /\ ~AtHighWater(al)
    /\ LET e == al.pos + 1
           b1 == IF al.file[e] THEN Append(al.batch, e) ELSE al.batch
           due == al.file[e] /\ Len(b1) >= al.batch_size
           room == HasRoom(al)
           a1 == [al EXCEPT !.pos = e, !.batch = b1]
       IN al' = IF due /\ room THEN QueuePut([a1 EXCEPT !.batch = <<>>], b1)
                ELSE IF due THEN [a1 EXCEPT !.timed_out = TRUE]
                ELSE a1
    /\ UNCHANGED <<store, contentVars, upsertVars, daemonVars, rows, pool, since_request, px, tx>>

\* The file is read: `if batch: work_queue.put(batch, timeout=300)'
ProducerFinal ==
    /\ al.ppc = "read"
    /\ al.pos = Len(al.file)
    /\ al.batch = <<>> \/ HasRoom(al)
    /\ al' = IF al.batch = <<>> THEN [al EXCEPT !.ppc = "tokens"]
             ELSE QueuePut([al EXCEPT !.ppc = "tokens", !.batch = <<>>], al.batch)
    /\ UNCHANGED <<store, contentVars, upsertVars, daemonVars, rows, pool, since_request, px, tx>>

\* `for _ in range(config["num_workers"]): work_queue.put(None, timeout=300)'
ProducerToken ==
    /\ al.ppc = "tokens"
    /\ HasRoom(al)
    /\ al' = QueuePut([al EXCEPT !.sent = @ + 1,
                                 !.ppc = IF al.sent + 1 = al.num_workers THEN "done"
                                         ELSE "tokens"],
                      LoaderToken)
    /\ UNCHANGED <<store, contentVars, upsertVars, daemonVars, rows, pool, since_request, px, tx>>

\* The put of the final batch or of a token finds the queue full for 300
\* seconds: queue.Full leaves the try block.
ProducerPutTimeout ==
    /\ \/ al.ppc = "tokens"
       \/ al.ppc = "read" /\ al.pos = Len(al.file) /\ al.batch # <<>>
    /\ ~HasRoom(al)
    /\ al' = [al EXCEPT !.ppc = "cleanup", !.timed_out = TRUE]
    /\ UNCHANGED <<store, contentVars, upsertVars, daemonVars, rows, pool, since_request, px, tx>>

\* The except clause: num_workers times work_queue.put(None, timeout=10)
\* with queue.Full ignored, then `raise'.
ProducerCleanup ==
    /\ al.ppc = "cleanup"
    /\ LET a1 == [al EXCEPT !.tried = @ + 1,
                            !.ppc = IF al.tried + 1 = al.num_workers THEN "failed"
                                    ELSE "cleanup"]
       IN al' = IF HasRoom(al) THEN QueuePut(a1, LoaderToken) ELSE a1
    /\ UNCHANGED <<store, contentVars, upsertVars, daemonVars, rows, pool, since_request, px, tx>>

ProducerEnded == al.ppc \in {"done", "failed"}

\* process_changeset_file: the wait for the first item ends; it returns if
\* the producer died leaving nothing, else it starts the consumers.
MainStartConsumers ==
    /\ al.mpc = "wait"
    /\ al.queue # <<>> \/ ProducerEnded
    /\ al' = IF ProducerEnded /\ al.queue = <<>>
             THEN [al EXCEPT !.mpc = "returned"]
             ELSE [al EXCEPT !.mpc = "producer_join",
                             !.cons = [c \in Consumers |->
                                          IF c <= al.num_workers
                                          THEN [al.cons[c] EXCEPT !.pc = "get"]
                                          ELSE al.cons[c]]]
    /\ UNCHANGED <<store, contentVars, upsertVars, daemonVars, rows, pool, since_request, px, tx>>

\* producer_thread.join()
MainProducerJoin ==
    /\ al.mpc = "producer_join"
    /\ ProducerEnded
    /\ al' = [al EXCEPT !.mpc = "queue_join"]
    /\ UNCHANGED <<store, contentVars, upsertVars, daemonVars, rows, pool, since_request, px, tx>>

\* work_queue.join()
MainQueueJoin ==
    /\ al.mpc = "queue_join"
    /\ al.unfinished = 0
    /\ al' = [al EXCEPT !.mpc = "threads_join"]
    /\ UNCHANGED <<store, contentVars, upsertVars, daemonVars, rows, pool, since_request, px, tx>>

\* `for thread, conn in consumers: thread.join(); conn.close()'
MainThreadsJoin ==
    /\ al.mpc = "threads_join"
    /\ \A c \in 1..al.num_workers : al.cons[c].pc = "exited"
    /\ al' = [al EXCEPT !.mpc = "returned"]
    /\ UNCHANGED <<store, contentVars, upsertVars, daemonVars, rows, pool, since_request, px, tx>>

\* consumer: batch = work_queue.get(timeout=TIMEOUT); on None task_done and
\* break, else the batch is handed to process_batch.
ConsumerGet(c) ==
    /\ al.cons[c].pc = "get"
    /\ al.queue # <<>>
    /\ al' = IF Head(al.queue) = LoaderToken
             THEN [al EXCEPT !.queue = Tail(@), !.unfinished = @ - 1,
                             !.cons[c].pc = "exited", !.cons[c].tokens = @ + 1]
             ELSE [al EXCEPT !.queue = Tail(@), !.handed = Append(@, Head(al.queue)),
                             !.cons[c].pc = "batch", !.cons[c].cur = Head(al.queue)]
    /\ UNCHANGED <<store, contentVars, upsertVars, daemonVars, rows, pool, since_request, px, tx>>

\* consumer with task_done only after a process_batch that did not raise
AfterBatchNoFinally(a, c, ok) ==
    [a EXCEPT !.write_errors = IF ok THEN @ ELSE @ + 1,
              !.unfinished = IF ok THEN @ - 1 ELSE @,
              !.cons[c].pc = "get", !.cons[c].cur = <<>>]

\* consumer: process_batch(conn, batch) returns or raises (the exception is
\* logged), and `finally: work_queue.task_done()'.
AfterBatch(a, c, ok) ==
    [a EXCEPT !.write_errors = IF ok THEN @ ELSE @ + 1,
              !.unfinished = @ - 1,
              !.cons[c].pc = "get", !.cons[c].cur = <<>>]

ConsumerBatch(c, ok) ==
    /\ al.cons[c].pc = "batch"
    /\ al' = AfterBatch(al, c, ok)
    /\ UNCHANGED <<store, contentVars, upsertVars, daemonVars, rows, pool, since_request, px, tx>>

\* consumer: nothing arrives for TIMEOUT seconds, queue.Empty, break
ConsumerTimeout(c) ==
    /\ al.cons[c].pc = "get"
    /\ al.queue = <<>>
    /\ al' = [al EXCEPT !.cons[c].pc = "exited", !.timed_out = TRUE]
    /\ UNCHANGED <<store, contentVars, upsertVars, daemonVars, rows, pool, since_request, px, tx>>

\* process_changeset_file(config) is called; the producer thread starts.
InitLoad ==
    /\ Elsewhere
    /\ pool = NoPool
    /\ since_request = THROTTLE_DELAY
    /\ px = NoParse
    /\ tx = NoTx
    /\ \E f \in LoaderFiles, n \in LoaderSizes, q \in LoaderSizes, b \in LoaderSizes :
           al = [NoLoader EXCEPT !.file = f, !.num_workers = n, !.queue_size = q,
                                 !.batch_size = b, !.mpc = "wait", !.ppc = "read"]

\* The steps that are no timeout
LoadProgress ==
    \/ ProducerRead
    \/ ProducerFinal
    \/ ProducerToken
    \/ ProducerCleanup
    \/ MainStartConsumers
    \/ MainProducerJoin
    \/ MainQueueJoin
    \/ MainThreadsJoin
    \/ \E c \in Consumers : ConsumerGet(c)
    \/ \E c \in Consumers, ok \in BOOLEAN : ConsumerBatch(c, ok)

NextLoad ==
    \/ LoadProgress
    \/ ProducerPutTimeout
    \/ \E c \in Consumers : ConsumerTimeout(c)

SpecLoad == InitLoad /\ [][NextLoad]_vars

\* Every thread that can take a step that is no timeout takes one in the end.
SpecLoadFair == SpecLoad /\ WF_vars(LoadProgress)

(***************************************************************************)
(* Claims checked under SpecLoadFair                                       *)
(***************************************************************************)
\* The producer has streamed the whole file, every consumer has received
\* exactly one token and has exited, the queue is drained and
\* process_changeset_file has returned.
LoadComplete ==
    /\ al.ppc = "done" /\ al.pos = Len(al.file)
    /\ \A c \in 1..al.num_workers : al.cons[c].pc = "exited" /\ al.cons[c].tokens = 1
    /\ al.queue = <<>> /\ al.unfinished = 0
    /\ al.mpc = "returned"

\* C30 as stated: for every file, num_workers, queue_size and batch_size the
\* load completes, batch writes failing or not.
C30_LoadCompletes == <>LoadComplete

\* C30: unless a queue operation times out (a consumer waits TIMEOUT seconds
\* on an empty queue, or the producer 300 seconds on a full one), the load
\* completes for every file, num_workers, queue_size and batch_size, batch
\* writes failing or not.
C30_LoadCompletesUnlessTimeout == <>(al.timed_out \/ LoadComplete)

\* C30 witness: a load with two consumers on a queue of size 1 is complete,
\* no timeout has happened, two batches were handed to process_batch and a
\* batch write has failed.
C30_Witness ==
    /\ LoadComplete
    /\ ~al.timed_out
    /\ al.num_workers = 2 /\ al.queue_size = 1
    /\ Len(al.handed) >= 2
    /\ al.write_errors > 0

(***************************************************************************)
(* Claims checked under SpecLoad                                           *)
(***************************************************************************)
\* The positions of the accepted elements among the first n of the file
RECURSIVE AcceptedUpTo(_, _)
AcceptedUpTo(file, n) ==
    IF n = 0 THEN <<>>
    ELSE AcceptedUpTo(file, n - 1) \o (IF file[n] THEN <<n>> ELSE <<>>)

\* The batches of a sequence of batches and tokens, joined
RECURSIVE Flatten(_)
Flatten(q) == IF q = <<>> THEN <<>> ELSE Head(q) \o Flatten(Tail(q))

\* C31: the items waiting in work_queue never number more than queue_size,
\* and no batch is dropped: the accepted elements read so far are those
\* handed to process_batch, those waiting in the queue and those of the
\* producer's batch, in this order.
C31_BoundedQueueNoDrop ==
    /\ Len(al.queue) <= al.queue_size
    /\ Flatten(al.handed) \o Flatten(al.queue) \o al.batch = AcceptedUpTo(al.file, al.pos)

\* C31 witness: a queue of size 2 is full of batches while the producer
\* still has elements to read.
C31_Witness ==
    /\ al.queue_size = 2 /\ Len(al.queue) = 2
    /\ \A k \in 1..Len(al.queue) : al.queue[k] # LoaderToken
    /\ al.ppc = "read" /\ al.pos < Len(al.file)

CoordEps == 2
LonLimit == 3
LatLimit == 2
Lons == {0, 1, 3, 4}
Lats == {0, 1, 2, 3}

\* The elements: id 0 stands for a missing or non-positive id, created_ok
\* tells whether created_at parses, and open elements carry no closed_at.
ParseElements ==
    {e \in [id : {0, 1}, min_lon : Lons, max_lon : Lons, min_lat : Lats, max_lat : Lats,
            created_ok : BOOLEAN, closed_at : {NULL, 1}, open : BOOLEAN] : WellFormed(e)}

Abs(x) == IF x < 0 THEN 0 - x ELSE x

\* parsers.py: `Validate coordinate ranges' (the lower limits are not
\* reached by the elements of the model)
CoordinatesValid(e) ==
    /\ e.min_lon <= LonLimit /\ e.max_lon <= LonLimit
    /\ e.min_lat <= LatLimit /\ e.max_lat <= LatLimit

\* parsers.py: Point(...) if both spans are below 1e-7 else box(...)
Geometry(e) ==
    IF Abs(e.min_lon - e.max_lon) < CoordEps /\ Abs(e.min_lat - e.max_lat) < CoordEps
    THEN "POINT" ELSE "POLYGON"

\* archive_loader.py: box(...) if min_lon != min_lat and max_lon != max_lat
\* else Point(min_lon, min_lat)
ArchiveGeometry(e) ==
    IF e.min_lon # e.min_lat /\ e.max_lon # e.max_lat THEN "POLYGON" ELSE "POINT"

\* parsers.py parse_changeset with the coordinates and created_at: <<>> for
\* None. created_at is parse_datetime's result, None when it does not parse.
ParseChangesetElement(e) ==
    IF e.id <= 0 THEN <<>>
    ELSE IF ~CoordinatesValid(e) THEN <<>>
    ELSE IF e.closed_at = NULL THEN <<>>
    ELSE << [id |-> e.id, created_at |-> IF e.created_ok THEN 1 ELSE NULL,
             closed_at |-> e.closed_at, open |-> e.open, bbox |-> Geometry(e)] >>

\* archive_loader.py parse_changeset: <<>> for (None, [], [])
ArchiveParseChangeset(e) ==
    IF e.id <= 0 THEN <<>>
    ELSE << [id |-> e.id, created_at |-> IF e.created_ok THEN 1 ELSE NULL,
             closed_at |-> e.closed_at, open |-> e.open, bbox |-> ArchiveGeometry(e)] >>

\* Both parsers read the element e.
ParseElement(e) ==
    /\ px' = [parsed |-> TRUE, elem |-> e, replication |-> ParseChangesetElement(e),
              archive |-> ArchiveParseChangeset(e)]
    /\ UNCHANGED <<store, contentVars, upsertVars, daemonVars, rows, pool, al,
                   since_request, tx>>

InitParse ==
    /\ Elsewhere
    /\ pool = NoPool
    /\ al = NoLoader
    /\ since_request = THROTTLE_DELAY
    /\ px = NoParse
    /\ tx = NoTx

NextParse == \E e \in ParseElements : ParseElement(e)

SpecParse == InitParse /\ [][NextParse]_vars

\* C33: the replication parser yields no record exactly when the id is
\* missing or not positive, a coordinate is outside its range or created_at
\* does not parse; every other element, open ones included, yields a record.
C33_SkippedExactlyWhenInvalid ==
    px.parsed =>
        ( px.replication = <<>>
          <=> \/ px.elem.id <= 0
              \/ px.elem.min_lon > LonLimit \/ px.elem.max_lon > LonLimit
              \/ px.elem.min_lat > LatLimit \/ px.elem.max_lat > LatLimit
              \/ ~px.elem.created_ok )

\* C34: the bbox either parser makes of an element is a POINT exactly when
\* both spans are below 1e-7, and the envelope POLYGON otherwise.
C34_PointExactlyWhenDegenerate ==
    LET degenerate == /\ Abs(px.elem.max_lon - px.elem.min_lon) < CoordEps
                      /\ Abs(px.elem.max_lat - px.elem.min_lat) < CoordEps
        expected == IF degenerate THEN "POINT" ELSE "POLYGON"
    IN px.parsed =>
           /\ px.replication # <<>> => px.replication[1].bbox = expected
           /\ px.archive # <<>> => px.archive[1].bbox = expected

(***************************************************************************)
(* SpecTxn: the batch writers insert_batch (archive loader) and             *)
(* upsert_changesets (replication) on one connection. tx.pending is what    *)
(* the connection's open transaction has written, tx.visible what other     *)
(* sessions can read; an item is <<batch number, table>>.                   *)
(***************************************************************************)
MaxBatches == 3
TxWriters == {"insert_batch", "upsert_changesets"}

\* The execute_values calls of each writer, in order.
Statements(w) ==
    IF w = "insert_batch" THEN <<"changesets", "changeset_tags", "changeset_comments">>
    ELSE <<"changesets">>

\* The connection get_db_connection returns: not in autocommit mode, so
\* that "each batch is written in one transaction".
GetDbConnection == [autocommit |-> FALSE]

RollbackNothing(t) == t

\* conn.rollback()
Rollback(t) == [t EXCEPT !.undone = @ \cup t.pending, !.pending = {}]

\* conn.commit()
Commit(t) == [t EXCEPT !.visible = @ \cup t.pending, !.pending = {}]

\* A writer is called with the next batch.
TxBegin(w) ==
    /\ tx.writer = "none"
    /\ tx.n < MaxBatches
    /\ tx' = [tx EXCEPT !.writer = w, !.n = @ + 1, !.stmt = 0]
    /\ UNCHANGED <<store, contentVars, upsertVars, daemonVars, rows, pool, al,
                   since_request, px>>

\* The next execute_values succeeds; insert_batch leaves the statement out
\* when its part of the batch is empty.
TxExecute(nonempty) ==
    /\ tx.writer # "none"
    /\ tx.stmt < Len(Statements(tx.writer))
    /\ nonempty \/ (tx.writer = "insert_batch")
    /\ LET written == IF nonempty THEN {<<tx.n, Statements(tx.writer)[tx.stmt + 1]>>} ELSE {}
           t == [tx EXCEPT !.stmt = @ + 1, !.pending = @ \cup written]
       IN tx' = IF GetDbConnection.autocommit THEN Commit(t) ELSE t
    /\ UNCHANGED <<store, contentVars, upsertVars, daemonVars, rows, pool, al,
                   since_request, px>>

\* conn.commit() after the last statement.
TxCommit ==
    /\ tx.writer # "none"
    /\ tx.stmt = Len(Statements(tx.writer))
    /\ tx' = [Commit(tx) EXCEPT !.writer = "none"]
    /\ UNCHANGED <<store, contentVars, upsertVars, daemonVars, rows, pool, al,
                   since_request, px>>

\* The next statement, or the commit, raises: the except clause rolls back.
TxFail ==
    /\ tx.writer # "none"
    /\ tx' = [Rollback(tx) EXCEPT !.writer = "none", !.failed = @ \cup {tx.n}]
    /\ UNCHANGED <<store, contentVars, upsertVars, daemonVars, rows, pool, al,
                   since_request, px>>

InitTxn ==
    /\ Elsewhere
    /\ pool = NoPool
    /\ al = NoLoader
    /\ since_request = THROTTLE_DELAY
    /\ px = NoParse
    /\ tx = NoTx

NextTxn ==
    \/ \E w \in TxWriters : TxBegin(w)
    \/ \E nonempty \in BOOLEAN : TxExecute(nonempty)
    \/ TxCommit
    \/ TxFail

SpecTxn == InitTxn /\ [][NextTxn]_vars

\* C32: a batch write is atomic: nothing of a batch whose write failed is
\* visible in the store, whichever statement or commit the failure hit.
C32_FailedBatchInvisible ==
    \A item \in tx.visible : item[1] \notin tx.failed

\* A batch failed after it had written rows, and a later batch was committed
\* on the same connection.
C32_Witness ==
    /\ tx.undone # {}
    /\ \E item \in tx.visible : \E gone \in tx.undone : item[1] > gone[1]

====
